---- MODULE Spec2Model ----
(***************************************************************************)
(* Contract analysis pipeline: the shared ContractState record, the four   *)
(* agents (parser, legal, risk, coordinator) run through                   *)
(* BaseContractAgent.handle_processing, and the driver                     *)
(* ContractAnalysisOrchestrator.analyze_contract.                          *)
(*                                                                         *)
(* Every statement of the code that changes the record is one action, so   *)
(* the order of writes inside a stage is visible to the properties.        *)
(***************************************************************************)
EXTENDS Integers, Sequences, FiniteSets, TLC

VARIABLES
    state,          \* the ContractState dict of the run (None before analyze_contract creates it)
    opc,            \* position of analyze_contract
    apc,            \* position of the active handle_processing / process
    self,           \* agent whose handle_processing is active (self.agent_type)
    exc,            \* exception in flight (None when there is none)
    result,         \* value returned by the last Crew kickoff()
    current_status, \* CoordinatorAgent.process local: status read on entry
    delivered,      \* what analyze_contract handed to its caller (None while running)
    calls,          \* the external capability's transcript: each request's agent and the answer
    step,           \* the driver's "STEP n/4"
    now,            \* the clock read by datetime.utcnow()
    before,         \* a direct caller's copy of the record, taken when it calls handle_processing
    run,            \* how many runs analyze_contract has started (each draws a contract_id)
    analysis_cache, \* the API module's analysis_cache dict: contract_id -> record
    http,           \* the API's last response (None before the first)
    other           \* the other driver run on the same orchestrator, while this one executes

vars == <<state, opc, apc, self, exc, result, current_status, delivered, calls, step, now, before,
          run, analysis_cache, http, other>>

-----------------------------------------------------------------------------
(* Python values.  Every value is a tagged record so that values of        *)
(* different Python types can be compared.  Numbers are held in hundredths *)
(* (Num(85) is 0.85, PyInt(3) is 3).                                       *)

None == [t |-> "None"]
Num(n) == [t |-> "num", v |-> n]
PyInt(n) == Num(n * 100)
Str(s) == [t |-> "str", v |-> s]
List(s) == [t |-> "list", v |-> s]
Dict(f) == [t |-> "dict", v |-> f]
Bool(b) == [t |-> "bool", v |-> b]
EmptyMap == [k \in {} |-> None]

\* bool(v)
Truthy(v) ==
    CASE v.t = "None" -> FALSE
      [] v.t = "num" -> v.v # 0
      [] v.t = "bool" -> v.v
      [] v.t = "str" -> v.v # ""
      [] v.t = "list" -> Len(v.v) > 0
      [] v.t = "dict" -> DOMAIN v.v # {}
      [] OTHER -> TRUE

\* len(v) is defined (otherwise TypeError)
CanLen(v) == v.t \in {"str", "list", "dict"}

PyLen(v) ==
    CASE v.t = "list" -> Len(v.v)
      [] v.t = "dict" -> Cardinality(DOMAIN v.v)
      [] OTHER -> 1

\* d.get(k, default) on a dict d
Get(d, k, default) == IF k \in DOMAIN d.v THEN d.v[k] ELSE default

\* v.get(...) is defined (otherwise AttributeError)
HasGet(v) == v.t = "dict"

\* ', '.join(v) is defined: an iterable of str (otherwise TypeError)
CanJoin(v) ==
    CASE v.t = "list" -> \A i \in 1..Len(v.v) : v.v[i].t = "str"
      [] v.t = "dict" -> TRUE
      [] v.t = "str" -> TRUE
      [] OTHER -> FALSE

\* v[:5] is defined (otherwise TypeError / KeyError)
CanSlice(v) == v.t \in {"list", "str"}

-----------------------------------------------------------------------------
(* Enumerations of core/state.py *)

PARSER == "parser"
LEGAL == "legal"
RISK == "risk"
COORDINATOR == "coordinator"
AgentType == {COORDINATOR, PARSER, LEGAL, RISK}

ANALYSIS_RESULT == "analysis_result"
COMPLETION == "completion"

PENDING == "pending"
PARSING == "parsing"
ANALYZING == "analyzing"
RISK_ASSESSMENT == "risk_assessment"
SYNTHESIZING == "synthesizing"
COMPLETED == "completed"
FAILED == "failed"
ProcessingStatus == {PENDING, PARSING, ANALYZING, RISK_ASSESSMENT, SYNTHESIZING, COMPLETED, FAILED}

StageOrder == <<PARSER, LEGAL, RISK, COORDINATOR>>

\* position of an agent in the driver's fixed order
StageIndex(a) == CHOOSE i \in 1..4 : StageOrder[i] = a

-----------------------------------------------------------------------------
(* The external capability's response.  str(result) is described by what   *)
(* each parsing strategy of _parse_crew_result finds in it:                *)
(*   whole  : json.loads(result_str)                                       *)
(*   fenced : the ```json ... ``` block found by the first regex           *)
(*   braced : the first brace-delimited substring found by the second      *)
(* each "ok" with the loaded value, "invalid" (json.loads raises           *)
(* JSONDecodeError) or, for the two searches, "absent" (no match).         *)
(* raw is the text itself (only its identity is kept).                     *)

Ok(v) == [o |-> "ok", val |-> v]
Invalid == [o |-> "invalid"]
Absent == [o |-> "absent"]

Text(raw, whole, fenced, braced) ==
    [raw |-> raw, whole |-> whole, fenced |-> fenced, braced |-> braced]

\* the whole text is one JSON document
WholeJson(raw, v) == Text(raw, Ok(v), Absent, Absent)
\* prose around a fenced json block holding v
FencedJson(raw, v) == Text(raw, Invalid, Ok(v), Ok(v))
\* prose around a bare {...} object
BracedJson(raw, v) == Text(raw, Invalid, Absent, Ok(v))
\* a loadable {...} object, then a fenced block whose content does not load
FencedBroken(raw, v) == Text(raw, Invalid, Invalid, Ok(v))
\* braces that do not load
BracedBroken(raw) == Text(raw, Invalid, Absent, Invalid)
\* plain prose
Prose(raw) == Text(raw, Invalid, Absent, Absent)

\* json.loads / re.search cascade shared by the three _parse_crew_result
\* methods and CoordinatorAgent._parse_result.  A JSONDecodeError raised by
\* the second or third json.loads is raised inside the except clause of the
\* first, so it leaves the cascade and reaches the outer handler (fallback).
ParseCascade(text, fallback) ==
    IF text.whole.o = "ok" THEN text.whole.val
    ELSE IF text.fenced.o # "absent"
         THEN (IF text.fenced.o = "ok" THEN text.fenced.val ELSE fallback)
    ELSE IF text.braced.o # "absent"
         THEN (IF text.braced.o = "ok" THEN text.braced.val ELSE fallback)
    ELSE fallback

\* the cascade returns the fallback for text
CascadeFallsBack(text) ==
    /\ text.whole.o # "ok"
    /\ IF text.fenced.o # "absent" THEN text.fenced.o = "invalid"
       ELSE IF text.braced.o # "absent" THEN text.braced.o = "invalid"
       ELSE TRUE

\* _parse_crew_result / _parse_result calls logger.error for text: the outer
\* except clause is reached.  In the parser, legal and risk agents a text in
\* which neither regex matches returns the fallback from inside the cascade,
\* without reaching it; the coordinator raises ValueError there.
ParseLogsError(a, text) ==
    /\ text.whole.o # "ok"
    /\ \/ text.fenced.o = "invalid"
       \/ text.fenced.o = "absent" /\ text.braced.o = "invalid"
       \/ text.fenced.o = "absent" /\ text.braced.o = "absent" /\ a = COORDINATOR

\* text[:500] / str(result)[:500]: the sample texts are shorter than 500
Prefix500(text) == Str(text.raw)

\* len(text.split()) of the sample texts
WordCount(text) == PyInt(3)

\* ParserAgent._create_fallback_structure
ParserFallback(text) ==
    Dict("structured_sections" :> Dict("Full Text" :> Prefix500(text)) @@
         "metadata" :> Dict("num_pages" :> PyInt(1) @@ "word_count" :> WordCount(text) @@
                            "language" :> Str("en") @@ "document_quality" :> Str("medium")) @@
         "extraction_confidence" :> Num(70))

\* LegalAgent._create_fallback_analysis
LegalFallback ==
    Dict("contract_type" :> Str("Unknown") @@
         "parties_involved" :> List(<<Str("Unknown")>>) @@
         "key_terms" :> List(<<>>) @@
         "obligations" :> List(<<>>) @@
         "clauses_identified" :> List(<<>>) @@
         "jurisdiction" :> None @@
         "effective_date" :> None @@
         "termination_date" :> None)

UnableToAssess == Dict("score" :> Num(500) @@ "description" :> Str("Unable to assess"))

\* (mutant) the fallback of the risk agent is an empty mapping
RiskFallback_Empty == Dict(EmptyMap)

\* RiskAgent._create_fallback_assessment
RiskFallback ==
    Dict("overall_risk_score" :> Num(500) @@
         "risk_categories" :> Dict("financial" :> UnableToAssess @@ "legal" :> UnableToAssess @@
                                   "operational" :> UnableToAssess @@ "compliance" :> UnableToAssess) @@
         "critical_risks" :> List(<<>>) @@
         "compliance_issues" :> List(<<>>) @@
         "recommendations" :> List(<<Str("Manual review recommended due to parsing issues")>>))

\* the default structure of CoordinatorAgent._parse_result
ReportFallback(text) ==
    Dict("executive_summary" :> Prefix500(text) @@
         "detailed_analysis" :> Dict(EmptyMap) @@
         "risk_matrix" :> Dict("overall_risk" :> Str("Medium")) @@
         "action_items" :> List(<<Str("Review raw output for details")>>) @@
         "approval_recommendation" :> Str("Requires Review"))

\* ParserAgent._parse_crew_result
ParserParseCrewResult(text) == ParseCascade(text, ParserFallback(text))
\* LegalAgent._parse_crew_result
LegalParseCrewResult(text) == ParseCascade(text, LegalFallback)
\* RiskAgent._parse_crew_result
RiskParseCrewResult(text) == ParseCascade(text, RiskFallback)
\* CoordinatorAgent._parse_result (kickoff() returns a CrewOutput, never a dict)
CoordinatorParseResult(text) == ParseCascade(text, ReportFallback(text))

-----------------------------------------------------------------------------
(* Sample responses of the capability, per stage: well-formed, wrapped,    *)
(* with fields missing, with fields of another type, not a mapping, and    *)
(* not parseable.                                                          *)

ParserFull ==
    Dict("structured_sections" :> Dict("Parties" :> Str("summary") @@ "Term" :> Str("summary")) @@
         "metadata" :> Dict("num_pages" :> PyInt(2) @@ "language" :> Str("en")) @@
         "extraction_confidence" :> Num(95))

LegalFull ==
    Dict("contract_type" :> Str("Non-Disclosure Agreement") @@
         "parties_involved" :> List(<<Str("TechCorp Inc."), Str("DataSystems LLC")>>) @@
         "key_terms" :> List(<<Dict("term" :> Str("Confidential Information"))>>) @@
         "obligations" :> List(<<Dict("party" :> Str("Receiving Party"))>>) @@
         "clauses_identified" :> List(<<Dict("type" :> Str("Confidentiality") @@ "summary" :> Str("s"))>>) @@
         "jurisdiction" :> Str("Delaware") @@
         "effective_date" :> Str("2024-01-15") @@
         "termination_date" :> Str("2026-01-15"))

RiskFull ==
    Dict("overall_risk_score" :> Num(550) @@
         "risk_categories" :> Dict("financial" :> Dict("score" :> Num(600)) @@
                                   "legal" :> Dict("score" :> Num(450))) @@
         "critical_risks" :> List(<<Dict("category" :> Str("Financial") @@ "description" :> Str("d"))>>) @@
         "compliance_issues" :> List(<<>>) @@
         "recommendations" :> List(<<Str("Specific action 1")>>))

ReportFull ==
    Dict("executive_summary" :> Str("summary") @@
         "detailed_analysis" :> Dict("contract_overview" :> Str("o") @@
                                     "key_findings" :> List(<<Str("Finding 1")>>) @@
                                     "legal_assessment" :> Str("l") @@
                                     "risk_summary" :> Str("r")) @@
         "risk_matrix" :> Dict("overall_risk" :> Str("Medium") @@ "financial_risk" :> Str("High") @@
                               "legal_risk" :> Str("Low") @@ "operational_risk" :> Str("Low")) @@
         "action_items" :> List(<<Str("Specific action item 1")>>) @@
         "approval_recommendation" :> Str("Approve with Modifications"))

\* a response in which key k of the well-formed mapping d holds v instead
With(d, k, v) == Dict((k :> v) @@ d.v)

\* a response in which key k of the well-formed mapping d is absent
Without(d, k) == Dict([x \in DOMAIN d.v \ {k} |-> d.v[x]])

WellFormed(a) ==
    CASE a = PARSER -> {WholeJson("parser json", ParserFull)}
      [] a = LEGAL -> {WholeJson("legal json", LegalFull)}
      [] a = RISK -> {WholeJson("risk json", RiskFull)}
      [] a = COORDINATOR -> {WholeJson("report json", ReportFull)}

Responses(a) ==
    WellFormed(a) \cup
    CASE a = PARSER ->
           { FencedJson("parser fenced", ParserFull),
             WholeJson("parser empty", Dict(EmptyMap)),
             WholeJson("parser null sections", With(ParserFull, "structured_sections", None)),
             WholeJson("parser list sections", With(ParserFull, "structured_sections", List(<<Str("Parties")>>))),
             WholeJson("parser array", List(<<>>)),
             FencedBroken("parser fenced broken", ParserFull),
             Prose("parser prose") }
      [] a = LEGAL ->
           { BracedJson("legal braced", LegalFull),
             WholeJson("legal empty", Dict(EmptyMap)),
             WholeJson("legal null clauses", With(LegalFull, "clauses_identified", None)),
             WholeJson("legal null parties", With(LegalFull, "parties_involved", None)),
             WholeJson("legal number", PyInt(42)),
             Prose("legal prose") }
      [] a = RISK ->
           { FencedJson("risk fenced", RiskFull),
             WholeJson("risk empty", Dict(EmptyMap)),
             WholeJson("risk null critical", With(RiskFull, "critical_risks", None)),
             WholeJson("risk score 15", With(RiskFull, "overall_risk_score", Num(1500))),
             WholeJson("risk no score", Without(RiskFull, "overall_risk_score")),
             WholeJson("risk string", Str("n/a")),
             FencedBroken("risk fenced broken", RiskFull),
             Prose("risk prose") }
      [] a = COORDINATOR ->
           { FencedJson("report fenced", ReportFull),
             WholeJson("report empty", Dict(EmptyMap)),
             WholeJson("report short matrix", With(ReportFull, "risk_matrix", Dict("overall_risk" :> Str("High")))),
             WholeJson("report array", List(<<>>)),
             BracedBroken("report braced broken"),
             Prose("report prose") }

\* exceptions
Exc(type, msg) == [t |-> "exc", type |-> type, msg |-> msg]

\* what kickoff() raises when the capability fails
CapabilityErrors == {Exc("RuntimeError", "capability unavailable")}

\* the documents analyze_contract is called for (filename: the type hint is
\* not enforced, and ParserAgent.validate_input provides for None)
Filenames == {Str("sample_nda.pdf"), Str("service_agreement.txt"), None}

-----------------------------------------------------------------------------
(* core/state.py and the record helpers of core/base_agent.py *)

IsoTime(n) == [t |-> "time", v |-> n]
Agent(a) == [t |-> "agent", v |-> a]

\* create_initial_state
create_initial_state(contract_id, filename, file_size, user_instructions, priority_level) ==
    [ contract_metadata |-> [contract_id |-> contract_id, filename |-> filename,
                             upload_timestamp |-> IsoTime(now), file_size |-> file_size,
                             num_pages |-> None],
      status |-> PENDING,
      current_agent |-> COORDINATOR,
      parser_output |-> None,
      legal_analysis |-> None,
      risk_assessment |-> None,
      final_report |-> None,
      messages |-> <<>>,
      errors |-> <<>>,
      processing_logs |-> <<>>,
      started_at |-> IsoTime(now),
      completed_at |-> None,
      user_instructions |-> user_instructions,
      priority_level |-> priority_level ]

\* BaseContractAgent.log_processing_step
log_processing_step(s, agent, message) ==
    [s EXCEPT !.processing_logs =
        Append(@, [timestamp |-> IsoTime(now), agent |-> agent, message |-> message])]

\* BaseContractAgent.add_error; message is the prefix and str(e)
add_error(s, agent, prefix, e, error_details) ==
    [s EXCEPT !.errors =
        Append(@, [timestamp |-> IsoTime(now), agent |-> agent,
                   message |-> <<prefix, e.msg>>, details |-> error_details])]

\* BaseContractAgent.send_message with create_agent_message; the uuid4
\* message_id is a fresh value (the clock reading is one)
send_message(s, agent, to_agent, message_type, content) ==
    [s EXCEPT !.messages =
        Append(@, [from_agent |-> agent, to_agent |-> to_agent,
                   message_type |-> message_type, content |-> content,
                   timestamp |-> IsoTime(now), message_id |-> now])]

\* BaseContractAgent.update_status
update_status(s, new_status) == [s EXCEPT !.status = new_status]

\* (mutant) every agent accepts every record
validate_input_AlwaysTrue(a, s) == TRUE

\* validate_input of each agent
validate_input(a, s) ==
    CASE a = PARSER -> s.contract_metadata.filename # None
      [] a = LEGAL -> s.parser_output # None
      [] a = RISK -> s.legal_analysis # None
      [] a = COORDINATOR -> TRUE

-----------------------------------------------------------------------------
(* BaseContractAgent.handle_processing *)

Frame == UNCHANGED <<opc, delivered, step, before, run, analysis_cache, http, other>>

\* (mutant) handle_processing does not name the stage in current_agent
HpMarkCurrentAgent_Skipped ==
    /\ apc = "hp_mark"
    /\ apc' = "hp_log_start"
    /\ UNCHANGED <<state, self, exc, result, current_status, calls, now>>
    /\ Frame

\* state["current_agent"] = self.agent_type
HpMarkCurrentAgent ==
    /\ apc = "hp_mark"
    /\ state' = [state EXCEPT !.current_agent = self]
    /\ apc' = "hp_log_start"
    /\ UNCHANGED <<self, exc, result, current_status, calls, now>>
    /\ Frame

\* self.log_processing_step(state, "Starting processing")
HpLogStart ==
    /\ apc = "hp_log_start"
    /\ state' = log_processing_step(state, self, "Starting processing")
    /\ now' = now + 1
    /\ apc' = "hp_validate"
    /\ UNCHANGED <<self, exc, result, current_status, calls>>
    /\ Frame

\* (mutant) process is entered without asking validate_input
HpValidate_Skipped ==
    /\ apc = "hp_validate"
    /\ apc' = "process"
    /\ UNCHANGED <<state, self, exc, result, current_status, calls, now>>
    /\ Frame

\* (mutant) a stage that rejects its input tells the others
HpValidate_Announces ==
    /\ apc = "hp_validate"
    /\ IF validate_input(self, state)
          THEN apc' = "process" /\ exc' = exc /\ state' = state
          ELSE /\ apc' = "hp_except"
               /\ exc' = Exc("ValueError", "Invalid input state")
               /\ state' = send_message(state, self, None, COMPLETION, EmptyMap)
    /\ UNCHANGED <<self, result, current_status, calls, now>>
    /\ Frame

\* if not self.validate_input(state): raise ValueError(...)
HpValidate ==
    /\ apc = "hp_validate"
    /\ IF validate_input(self, state)
          THEN apc' = "process" /\ exc' = exc
          ELSE apc' = "hp_except" /\ exc' = Exc("ValueError", "Invalid input state")
    /\ UNCHANGED <<state, self, result, current_status, calls, now>>
    /\ Frame

\* (mutant) the completion line replaces the log instead of being appended
HpLogCompleted_Rewrites ==
    /\ apc = "hp_log_done"
    /\ state' = [state EXCEPT !.processing_logs =
                    <<[timestamp |-> IsoTime(now), agent |-> self,
                       message |-> "Completed processing"]>>]
    /\ now' = now + 1
    /\ apc' = "returned"
    /\ UNCHANGED <<self, exc, result, current_status, calls>>
    /\ Frame

\* self.log_processing_step(state, "Completed processing"); return state
HpLogCompleted ==
    /\ apc = "hp_log_done"
    /\ state' = log_processing_step(state, self, "Completed processing")
    /\ now' = now + 1
    /\ apc' = "returned"
    /\ UNCHANGED <<self, exc, result, current_status, calls>>
    /\ Frame

\* (mutant) the except clause records nothing
HpAddError_Skipped ==
    /\ apc = "hp_except"
    /\ apc' = "hp_fail"
    /\ UNCHANGED <<state, self, exc, result, current_status, calls, now>>
    /\ Frame

\* except Exception as e: state = self.add_error(state, f"Processing failed: ...", ...)
HpAddError ==
    /\ apc = "hp_except"
    /\ state' = add_error(state, self, "Processing failed", exc,
                          "exception_type" :> Str(exc.type))
    /\ now' = now + 1
    /\ apc' = "hp_fail"
    /\ UNCHANGED <<self, exc, result, current_status, calls>>
    /\ Frame

\* (mutant) a failed run also clears what the parser stored
HpUpdateStatusFailed_ClearsOutputs ==
    /\ apc = "hp_fail"
    /\ state' = [update_status(state, FAILED) EXCEPT !.parser_output = None]
    /\ apc' = "raised"
    /\ UNCHANGED <<self, exc, result, current_status, calls, now>>
    /\ Frame

\* state = self.update_status(state, ProcessingStatus.FAILED); raise
HpUpdateStatusFailed ==
    /\ apc = "hp_fail"
    /\ state' = update_status(state, FAILED)
    /\ apc' = "raised"
    /\ UNCHANGED <<self, exc, result, current_status, calls, now>>
    /\ Frame

-----------------------------------------------------------------------------
(* The external capability: Crew(...).kickoff() returns a response or      *)
(* raises.                                                                 *)

\* the capability's transcript: the answer to the last request
Answer(transcript, answer) == [transcript EXCEPT ![Len(transcript)].response = answer]

CapabilityReturns ==
    /\ apc = "wait"
    /\ \E r \in Responses(self) :
         /\ result' = r
         /\ calls' = Answer(calls, r)
    /\ apc' = "write"
    /\ UNCHANGED <<state, self, exc, current_status, now>>
    /\ Frame

CapabilityRaises ==
    /\ apc = "wait"
    /\ \E e \in CapabilityErrors :
         /\ exc' = e
         /\ calls' = Answer(calls, e)
    /\ apc' = "except"
    /\ UNCHANGED <<state, self, result, current_status, now>>
    /\ Frame

-----------------------------------------------------------------------------
(* Steps shared by the process methods.  Each is one statement of the      *)
(* method of the agent named.                                              *)

\* state = self.update_status(state, <the agent's in-progress status>)
InProgressStatus(a) ==
    CASE a = PARSER -> PARSING
      [] a = LEGAL -> ANALYZING
      [] a = RISK -> RISK_ASSESSMENT
      [] a = COORDINATOR -> SYNTHESIZING

\* the except clause of the process method: add_error, then raise
ProcessErrorPrefix(a) ==
    CASE a = PARSER -> "Parsing failed"
      [] a = LEGAL -> "Legal analysis failed"
      [] a = RISK -> "Risk assessment failed"
      [] a = COORDINATOR -> "Failed to synthesize report"

ProcessErrorDetails(a) ==
    IF a = COORDINATOR THEN "exception_type" :> Str(exc.type) ELSE EmptyMap

ProcessAddError ==
    /\ apc = "except"
    /\ state' = add_error(state, self, ProcessErrorPrefix(self), exc, ProcessErrorDetails(self))
    /\ now' = now + 1
    /\ apc' = "hp_except"
    /\ UNCHANGED <<self, exc, result, current_status, calls>>
    /\ Frame

\* a step of process that only appends a log line
LogStep(a, from, message, to) ==
    /\ self = a
    /\ apc = from
    /\ state' = log_processing_step(state, a, message)
    /\ now' = now + 1
    /\ apc' = to
    /\ UNCHANGED <<self, exc, result, current_status, calls>>
    /\ Frame

\* a step of process that raises e into the method's except clause
Raise(e) ==
    /\ exc' = e
    /\ apc' = "except"
    /\ UNCHANGED <<state, now>>

\* crew.kickoff(): the request reaches the capability
Kickoff(a) ==
    /\ self = a
    /\ apc = "kickoff"
    /\ calls' = Append(calls, [agent |-> a, response |-> None])
    /\ apc' = "wait"
    /\ UNCHANGED <<state, self, exc, result, current_status, now>>
    /\ Frame

-----------------------------------------------------------------------------
(* ParserAgent.process *)

\* the filenames whose lower() contains "nda"
NdaFilenames == {Str("sample_nda.pdf")}

\* ParserAgent._get_document_content
GetDocumentContent(s) ==
    IF s.contract_metadata.filename \in NdaFilenames
    THEN Str("NON-DISCLOSURE AGREEMENT ...")
    ELSE Str("SERVICE AGREEMENT ...")

\* (mutant) the parser does not announce its status
ParserUpdateStatus_Skipped ==
    /\ self = PARSER
    /\ apc = "process"
    /\ apc' = "log_start"
    /\ UNCHANGED <<state, self, exc, result, current_status, calls, now>>
    /\ Frame

ParserUpdateStatus ==
    /\ self = PARSER
    /\ apc = "process"
    /\ state' = update_status(state, PARSING)
    /\ apc' = "log_start"
    /\ UNCHANGED <<self, exc, result, current_status, calls, now>>
    /\ Frame

ParserLogStart == LogStep(PARSER, "log_start", "Starting document parsing", "log_exec")

\* raw_text, create_task and Crew(...) change nothing in the record
ParserLogExecuting == LogStep(PARSER, "log_exec", "Executing parsing task", "kickoff")

ParserKickoff == Kickoff(PARSER)

\* the ParserOutput built from parsed_data
BuildParserOutput(s, parsed_data) ==
    Dict("raw_text" :> GetDocumentContent(s) @@
         "structured_sections" :> Get(parsed_data, "structured_sections", Dict(EmptyMap)) @@
         "metadata" :> Get(parsed_data, "metadata", Dict(EmptyMap)) @@
         "extraction_confidence" :> Get(parsed_data, "extraction_confidence", Num(85)))

\* parsed_data = self._parse_crew_result(result); parser_output = {...};
\* state["parser_output"] = parser_output
ParserWriteOutput ==
    /\ self = PARSER
    /\ apc = "write"
    /\ LET parsed_data == ParserParseCrewResult(result) IN
         IF HasGet(parsed_data)
         THEN /\ state' = [state EXCEPT !.parser_output = BuildParserOutput(state, parsed_data)]
              /\ apc' = "send"
              /\ UNCHANGED <<exc, now>>
         ELSE Raise(Exc("AttributeError", "object has no attribute 'get'"))
    /\ UNCHANGED <<self, result, current_status, calls>>
    /\ Frame

\* (mutant) the parser sends no message to the legal agent
ParserSendMessage_Skipped ==
    /\ self = PARSER
    /\ apc = "send"
    /\ apc' = "log_complete"
    /\ UNCHANGED <<state, self, exc, result, current_status, calls, now>>
    /\ Frame

\* state = self.send_message(state, to_agent=AgentType.LEGAL, ...)
ParserSendMessage ==
    /\ self = PARSER
    /\ apc = "send"
    /\ LET sections == state.parser_output.v["structured_sections"] IN
         IF CanLen(sections)
         THEN /\ state' = send_message(state, PARSER, Agent(LEGAL), ANALYSIS_RESULT,
                             "sections_found" :> PyInt(PyLen(sections)) @@
                             "confidence" :> state.parser_output.v["extraction_confidence"])
              /\ now' = now + 1
              /\ apc' = "log_complete"
              /\ exc' = exc
         ELSE Raise(Exc("TypeError", "object has no len()"))
    /\ UNCHANGED <<self, result, current_status, calls>>
    /\ Frame

ParserLogComplete == LogStep(PARSER, "log_complete", "Parsing complete", "hp_log_done")

-----------------------------------------------------------------------------
(* LegalAgent.process *)

\* (mutant) the legal agent checks its input but does not set its status
LegalUpdateStatus_Skipped ==
    /\ self = LEGAL
    /\ apc = "process"
    /\ IF Truthy(state.parser_output)
          THEN apc' = "log_start" /\ exc' = exc
          ELSE apc' = "except" /\ exc' = Exc("ValueError", "Parser output not available")
    /\ UNCHANGED <<state, self, result, current_status, calls, now>>
    /\ Frame

\* update_status(ANALYZING); if not state.get("parser_output"): raise ValueError
LegalUpdateStatus ==
    /\ self = LEGAL
    /\ apc = "process"
    /\ state' = update_status(state, ANALYZING)
    /\ IF Truthy(state.parser_output)
          THEN apc' = "log_start" /\ exc' = exc
          ELSE apc' = "except" /\ exc' = Exc("ValueError", "Parser output not available")
    /\ UNCHANGED <<self, result, current_status, calls, now>>
    /\ Frame

LegalLogStart == LogStep(LEGAL, "log_start", "Starting legal analysis", "log_exec")

\* the task description (json.dumps of the sections, raw_text[:1500]) cannot raise
LegalLogExecuting == LogStep(LEGAL, "log_exec", "Executing legal analysis task", "kickoff")

LegalKickoff == Kickoff(LEGAL)

\* the LegalAnalysis built from analysis_data
BuildLegalAnalysis(analysis_data) ==
    Dict("key_terms" :> Get(analysis_data, "key_terms", List(<<>>)) @@
         "obligations" :> Get(analysis_data, "obligations", List(<<>>)) @@
         "parties_involved" :> Get(analysis_data, "parties_involved", List(<<>>)) @@
         "contract_type" :> Get(analysis_data, "contract_type", Str("Unknown")) @@
         "jurisdiction" :> Get(analysis_data, "jurisdiction", None) @@
         "effective_date" :> Get(analysis_data, "effective_date", None) @@
         "termination_date" :> Get(analysis_data, "termination_date", None) @@
         "clauses_identified" :> Get(analysis_data, "clauses_identified", List(<<>>)))

\* (mutant) the legal analysis is stored in the slot of the risk stage
LegalWriteOutput_IntoRiskSlot ==
    /\ self = LEGAL
    /\ apc = "write"
    /\ LET analysis_data == LegalParseCrewResult(result) IN
         IF HasGet(analysis_data)
         THEN /\ state' = [state EXCEPT !.risk_assessment = BuildLegalAnalysis(analysis_data)]
              /\ apc' = "log_complete"
              /\ UNCHANGED <<exc, now>>
         ELSE Raise(Exc("AttributeError", "object has no attribute 'get'"))
    /\ UNCHANGED <<self, result, current_status, calls>>
    /\ Frame

LegalWriteOutput ==
    /\ self = LEGAL
    /\ apc = "write"
    /\ LET analysis_data == LegalParseCrewResult(result) IN
         IF HasGet(analysis_data)
         THEN /\ state' = [state EXCEPT !.legal_analysis = BuildLegalAnalysis(analysis_data)]
              /\ apc' = "send"
              /\ UNCHANGED <<exc, now>>
         ELSE Raise(Exc("AttributeError", "object has no attribute 'get'"))
    /\ UNCHANGED <<self, result, current_status, calls>>
    /\ Frame

\* state = self.send_message(state, to_agent=AgentType.RISK, ...)
LegalSendMessage ==
    /\ self = LEGAL
    /\ apc = "send"
    /\ LET legal_analysis == state.legal_analysis.v IN
         IF CanLen(legal_analysis["clauses_identified"]) /\ CanLen(legal_analysis["obligations"])
         THEN /\ state' = send_message(state, LEGAL, Agent(RISK), ANALYSIS_RESULT,
                             "clauses_found" :> PyInt(PyLen(legal_analysis["clauses_identified"])) @@
                             "obligations_count" :> PyInt(PyLen(legal_analysis["obligations"])) @@
                             "contract_type" :> legal_analysis["contract_type"])
              /\ now' = now + 1
              /\ apc' = "log_complete"
              /\ exc' = exc
         ELSE Raise(Exc("TypeError", "object has no len()"))
    /\ UNCHANGED <<self, result, current_status, calls>>
    /\ Frame

LegalLogComplete == LogStep(LEGAL, "log_complete", "Legal analysis complete", "hp_log_done")

-----------------------------------------------------------------------------
(* RiskAgent.process *)

\* (mutant) the risk agent checks its input but does not set its status
RiskUpdateStatus_Skipped ==
    /\ self = RISK
    /\ apc = "process"
    /\ IF Truthy(state.legal_analysis)
          THEN apc' = "log_start" /\ exc' = exc
          ELSE apc' = "except" /\ exc' = Exc("ValueError", "Legal analysis not available")
    /\ UNCHANGED <<state, self, result, current_status, calls, now>>
    /\ Frame

\* update_status(RISK_ASSESSMENT); if not state.get("legal_analysis"): raise ValueError
RiskUpdateStatus ==
    /\ self = RISK
    /\ apc = "process"
    /\ state' = update_status(state, RISK_ASSESSMENT)
    /\ IF Truthy(state.legal_analysis)
          THEN apc' = "log_start" /\ exc' = exc
          ELSE apc' = "except" /\ exc' = Exc("ValueError", "Legal analysis not available")
    /\ UNCHANGED <<self, result, current_status, calls, now>>
    /\ Frame

RiskLogStart == LogStep(RISK, "log_start", "Starting risk assessment", "build_task")

\* the task description: ', '.join(legal_analysis['parties_involved']) raises
\* TypeError unless the value is an iterable of str
RiskBuildTask ==
    /\ self = RISK
    /\ apc = "build_task"
    /\ IF CanJoin(state.legal_analysis.v["parties_involved"])
          THEN apc' = "log_exec" /\ UNCHANGED <<exc, state, now>>
          ELSE Raise(Exc("TypeError", "can only join an iterable"))
    /\ UNCHANGED <<self, result, current_status, calls>>
    /\ Frame

RiskLogExecuting == LogStep(RISK, "log_exec", "Executing risk assessment task", "kickoff")

RiskKickoff == Kickoff(RISK)

\* (mutant) the mapping is stored as it was parsed, without the defaults
BuildRiskAssessment_NoDefaults(risk_data) == risk_data

\* the RiskAssessment built from risk_data
BuildRiskAssessment(risk_data) ==
    Dict("overall_risk_score" :> Get(risk_data, "overall_risk_score", Num(500)) @@
         "risk_categories" :> Get(risk_data, "risk_categories", Dict(EmptyMap)) @@
         "critical_risks" :> Get(risk_data, "critical_risks", List(<<>>)) @@
         "recommendations" :> Get(risk_data, "recommendations", List(<<>>)) @@
         "compliance_issues" :> Get(risk_data, "compliance_issues", List(<<>>)))

RiskWriteOutput ==
    /\ self = RISK
    /\ apc = "write"
    /\ LET risk_data == RiskParseCrewResult(result) IN
         IF HasGet(risk_data)
         THEN /\ state' = [state EXCEPT !.risk_assessment = BuildRiskAssessment(risk_data)]
              /\ apc' = "send"
              /\ UNCHANGED <<exc, now>>
         ELSE Raise(Exc("AttributeError", "object has no attribute 'get'"))
    /\ UNCHANGED <<self, result, current_status, calls>>
    /\ Frame

\* (mutant) the risk agent addresses its result to the legal agent
RiskSendMessage_ToLegal ==
    /\ self = RISK
    /\ apc = "send"
    /\ LET risk_assessment == state.risk_assessment.v IN
         IF CanLen(risk_assessment["critical_risks"])
         THEN /\ state' = send_message(state, RISK, Agent(LEGAL), ANALYSIS_RESULT,
                             "overall_risk_score" :> risk_assessment["overall_risk_score"] @@
                             "critical_risks_count" :> PyInt(PyLen(risk_assessment["critical_risks"])) @@
                             "ready_for_synthesis" :> Bool(TRUE))
              /\ now' = now + 1
              /\ apc' = "log_complete"
              /\ exc' = exc
         ELSE Raise(Exc("TypeError", "object has no len()"))
    /\ UNCHANGED <<self, result, current_status, calls>>
    /\ Frame

\* state = self.send_message(state, to_agent=AgentType.COORDINATOR, ...)
RiskSendMessage ==
    /\ self = RISK
    /\ apc = "send"
    /\ LET risk_assessment == state.risk_assessment.v IN
         IF CanLen(risk_assessment["critical_risks"])
         THEN /\ state' = send_message(state, RISK, Agent(COORDINATOR), ANALYSIS_RESULT,
                             "overall_risk_score" :> risk_assessment["overall_risk_score"] @@
                             "critical_risks_count" :> PyInt(PyLen(risk_assessment["critical_risks"])) @@
                             "ready_for_synthesis" :> Bool(TRUE))
              /\ now' = now + 1
              /\ apc' = "log_complete"
              /\ exc' = exc
         ELSE Raise(Exc("TypeError", "object has no len()"))
    /\ UNCHANGED <<self, result, current_status, calls>>
    /\ Frame

RiskLogComplete == LogStep(RISK, "log_complete", "Risk assessment complete", "hp_log_done")

-----------------------------------------------------------------------------
(* CoordinatorAgent.process and synthesize_report *)

\* f"Current status: {current_status.value}"
StatusLine(st) ==
    CASE st = PENDING -> "Current status: pending"
      [] st = PARSING -> "Current status: parsing"
      [] st = ANALYZING -> "Current status: analyzing"
      [] st = RISK_ASSESSMENT -> "Current status: risk_assessment"
      [] st = SYNTHESIZING -> "Current status: synthesizing"
      [] st = COMPLETED -> "Current status: completed"
      [] st = FAILED -> "Current status: failed"

\* (mutant) without the three outputs the coordinator declares the run completed
CoordinatorProcess_DegradeCompletes ==
    /\ self = COORDINATOR
    /\ apc = "process"
    /\ current_status' = state.status
    /\ IF Truthy(state.parser_output) /\ Truthy(state.legal_analysis)
            /\ Truthy(state.risk_assessment)
          THEN /\ state' = log_processing_step(state, COORDINATOR,
                              "All agent outputs available, synthesizing final report")
               /\ apc' = "update_status"
          ELSE /\ state' = update_status(
                              log_processing_step(state, COORDINATOR, StatusLine(state.status)),
                              COMPLETED)
               /\ apc' = "hp_log_done"
    /\ now' = now + 1
    /\ UNCHANGED <<self, exc, result, calls>>
    /\ Frame

\* current_status = state["status"]; the if on the three outputs, and the
\* log line of the branch taken
CoordinatorProcess ==
    /\ self = COORDINATOR
    /\ apc = "process"
    /\ current_status' = state.status
    /\ IF Truthy(state.parser_output) /\ Truthy(state.legal_analysis)
            /\ Truthy(state.risk_assessment)
          THEN /\ state' = log_processing_step(state, COORDINATOR,
                              "All agent outputs available, synthesizing final report")
               /\ apc' = "update_status"
          ELSE /\ state' = log_processing_step(state, COORDINATOR, StatusLine(state.status))
               /\ apc' = "hp_log_done"
    /\ now' = now + 1
    /\ UNCHANGED <<self, exc, result, calls>>
    /\ Frame

CoordinatorUpdateStatus ==
    /\ self = COORDINATOR
    /\ apc = "update_status"
    /\ state' = update_status(state, SYNTHESIZING)
    /\ apc' = "build_task"
    /\ UNCHANGED <<self, exc, result, current_status, calls, now>>
    /\ Frame

\* CoordinatorAgent._format_list is defined on items
FormatListOk(items) ==
    \/ ~Truthy(items)
    \/ /\ items.t = "list"
       /\ \A i \in 1..Len(items.v) : i <= 5 => HasGet(items.v[i])

\* CoordinatorAgent._build_synthesis_context returns (raises otherwise)
BuildSynthesisContextOk(s) ==
    LET parser_data == s.parser_output
        legal_data == s.legal_analysis
        risk_data == s.risk_assessment
    IN /\ HasGet(Get(parser_data, "metadata", Dict(EmptyMap)))
       /\ HasGet(Get(parser_data, "structured_sections", Dict(EmptyMap)))
       /\ CanJoin(Get(legal_data, "parties_involved", List(<<>>)))
       /\ CanLen(Get(legal_data, "key_terms", List(<<>>)))
       /\ CanLen(Get(legal_data, "obligations", List(<<>>)))
       /\ FormatListOk(Get(legal_data, "clauses_identified", List(<<>>)))
       /\ CanLen(Get(risk_data, "critical_risks", List(<<>>)))
       /\ FormatListOk(Get(risk_data, "critical_risks", List(<<>>)))
       /\ CanSlice(Get(risk_data, "recommendations", List(<<>>)))

CoordinatorBuildTask ==
    /\ self = COORDINATOR
    /\ apc = "build_task"
    /\ IF BuildSynthesisContextOk(state)
          THEN apc' = "log_exec" /\ UNCHANGED <<exc, state, now>>
          ELSE Raise(Exc("TypeError", "synthesis context"))
    /\ UNCHANGED <<self, result, current_status, calls>>
    /\ Frame

CoordinatorLogExecuting ==
    LogStep(COORDINATOR, "log_exec", "Executing synthesis task via Crew.AI", "kickoff")

CoordinatorKickoff == Kickoff(COORDINATOR)

\* the FinalReport built from report_data
BuildFinalReport(report_data) ==
    Dict("executive_summary" :> Get(report_data, "executive_summary", Str("")) @@
         "detailed_analysis" :> Get(report_data, "detailed_analysis", Dict(EmptyMap)) @@
         "risk_matrix" :> Get(report_data, "risk_matrix", Dict(EmptyMap)) @@
         "action_items" :> Get(report_data, "action_items", List(<<>>)) @@
         "approval_recommendation" :> Get(report_data, "approval_recommendation", Str("Requires Review")))

\* (mutant) the report is parsed but not stored
CoordinatorWriteOutput_NotStored ==
    /\ self = COORDINATOR
    /\ apc = "write"
    /\ LET report_data == CoordinatorParseResult(result) IN
         IF HasGet(report_data)
         THEN /\ apc' = "set_completed"
              /\ UNCHANGED <<state, exc, now>>
         ELSE Raise(Exc("AttributeError", "object has no attribute 'get'"))
    /\ UNCHANGED <<self, result, current_status, calls>>
    /\ Frame

\* report_data = self._parse_result(result); state["final_report"] = final_report
CoordinatorWriteOutput ==
    /\ self = COORDINATOR
    /\ apc = "write"
    /\ LET report_data == CoordinatorParseResult(result) IN
         IF HasGet(report_data)
         THEN /\ state' = [state EXCEPT !.final_report = BuildFinalReport(report_data)]
              /\ apc' = "set_completed"
              /\ UNCHANGED <<exc, now>>
         ELSE Raise(Exc("AttributeError", "object has no attribute 'get'"))
    /\ UNCHANGED <<self, result, current_status, calls>>
    /\ Frame

\* (mutant) the coordinator does not set the status to completed
CoordinatorSetCompleted_Skipped ==
    /\ self = COORDINATOR
    /\ apc = "set_completed"
    /\ apc' = "set_completed_at"
    /\ UNCHANGED <<state, self, exc, result, current_status, calls, now>>
    /\ Frame

\* state = self.update_status(state, ProcessingStatus.COMPLETED)
CoordinatorSetCompleted ==
    /\ self = COORDINATOR
    /\ apc = "set_completed"
    /\ state' = update_status(state, COMPLETED)
    /\ apc' = "set_completed_at"
    /\ UNCHANGED <<self, exc, result, current_status, calls, now>>
    /\ Frame

\* state["completed_at"] = datetime.utcnow().isoformat()
CoordinatorSetCompletedAt ==
    /\ self = COORDINATOR
    /\ apc = "set_completed_at"
    /\ state' = [state EXCEPT !.completed_at = IsoTime(now)]
    /\ now' = now + 1
    /\ apc' = "send"
    /\ UNCHANGED <<self, exc, result, current_status, calls>>
    /\ Frame

\* (mutant) the completion message is not sent
CoordinatorSendMessage_Skipped ==
    /\ self = COORDINATOR
    /\ apc = "send"
    /\ apc' = "log_complete"
    /\ UNCHANGED <<state, self, exc, result, current_status, calls, now>>
    /\ Frame

\* state = self.send_message(state, to_agent=None, message_type=COMPLETION, ...)
CoordinatorSendMessage ==
    /\ self = COORDINATOR
    /\ apc = "send"
    /\ state' = send_message(state, COORDINATOR, None, COMPLETION,
                    "message" :> Str("Contract analysis completed successfully"))
    /\ now' = now + 1
    /\ apc' = "log_complete"
    /\ UNCHANGED <<self, exc, result, current_status, calls>>
    /\ Frame

CoordinatorLogComplete ==
    LogStep(COORDINATOR, "log_complete", "Final report synthesized successfully", "hp_log_done")

-----------------------------------------------------------------------------
(* ContractAnalysisOrchestrator.analyze_contract *)

AgentFrame == UNCHANGED <<result, current_status, calls, before, run, analysis_cache, http, other>>

\* the identifiers uuid.uuid4().hex[:8] gives, one for each run
ContractIds == <<"CONTRACT-1", "CONTRACT-2", "CONTRACT-3", "CONTRACT-4">>
ContractId(n) == Str(ContractIds[n])

\* contract_id = f"CONTRACT-{uuid4}"; state = create_initial_state(...)
StartRun(filename, user_instructions, priority_level) ==
    /\ state' = create_initial_state(ContractId(run + 1), filename, PyInt(145000),
                                     user_instructions, priority_level)
    /\ run' = run + 1
    /\ now' = now + 1
    /\ opc' = "call"
    /\ step' = 1
    /\ UNCHANGED <<apc, self, exc, delivered>>
    /\ UNCHANGED <<result, current_status, calls, before, analysis_cache, other>>

\* a caller awaits orchestrator.analyze_contract(filename, file_size)
AnalyzeContract ==
    /\ opc = "idle"
    /\ \E filename \in Filenames : StartRun(filename, None, Str("medium"))
    /\ UNCHANGED http

\* state = await self.<agent>.handle_processing(state)
OrchInvoke ==
    /\ opc = "call"
    /\ apc = "idle"
    /\ self' = StageOrder[step]
    /\ apc' = "hp_mark"
    /\ opc' = "await"
    /\ UNCHANGED <<state, exc, delivered, step, now>>
    /\ AgentFrame

\* the value the logger.success line after a stage reads can be read
StageSummaryOk(a, s) ==
    CASE a = PARSER -> CanLen(s.parser_output.v["structured_sections"])
      [] a = LEGAL -> CanLen(s.legal_analysis.v["clauses_identified"])
      [] a = RISK -> TRUE
      [] a = COORDINATOR -> TRUE

\* handle_processing returned: the status test and the summary line, then
\* the next step
OrchStageReturned ==
    /\ opc = "await"
    /\ apc = "returned"
    /\ apc' = "idle"
    /\ IF state.status = FAILED
          THEN exc' = Exc("Exception", "agent failed") /\ opc' = "except" /\ step' = step
          ELSE IF ~StageSummaryOk(self, state)
          THEN exc' = Exc("TypeError", "object has no len()") /\ opc' = "except" /\ step' = step
          ELSE IF step < 4
          THEN exc' = exc /\ opc' = "call" /\ step' = step + 1
          ELSE exc' = exc /\ opc' = "mark_completed" /\ step' = step
    /\ UNCHANGED <<state, self, delivered, now>>
    /\ AgentFrame

\* (mutant) the driver swallows the stage's exception and goes on
OrchStageRaised_Swallowed ==
    /\ opc = "await"
    /\ apc = "raised"
    /\ apc' = "idle"
    /\ IF step < 4
          THEN opc' = "call" /\ step' = step + 1
          ELSE opc' = "except" /\ step' = step
    /\ UNCHANGED <<state, self, exc, delivered, now>>
    /\ AgentFrame

\* (mutant) the driver invokes the stage that raised once more
OrchStageRaised_Retries ==
    /\ opc = "await"
    /\ apc = "raised"
    /\ apc' = "idle"
    /\ opc' = "call"
    /\ UNCHANGED <<state, self, exc, delivered, step, now>>
    /\ AgentFrame

\* handle_processing raised: control reaches the except clause
OrchStageRaised ==
    /\ opc = "await"
    /\ apc = "raised"
    /\ apc' = "idle"
    /\ opc' = "except"
    /\ UNCHANGED <<state, self, exc, delivered, step, now>>
    /\ AgentFrame

\* state["completed_at"] = datetime.utcnow().isoformat()   (after STEP 4)
OrchMarkCompleted ==
    /\ opc = "mark_completed"
    /\ state' = [state EXCEPT !.completed_at = IsoTime(now)]
    /\ now' = now + 1
    /\ opc' = "return"
    /\ UNCHANGED <<apc, self, exc, delivered, step>>
    /\ AgentFrame

\* return state
OrchReturn ==
    /\ opc = "return"
    /\ delivered' = [t |-> "state", v |-> state]
    /\ opc' = "returned"
    /\ UNCHANGED <<state, apc, self, exc, step, now>>
    /\ AgentFrame

\* (mutant) the except clause starts again from a fresh record
OrchExceptSetFailed_FreshRecord ==
    /\ opc = "except"
    /\ state' = [state EXCEPT !.status = FAILED, !.parser_output = None, !.messages = <<>>]
    /\ opc' = "except_time"
    /\ UNCHANGED <<apc, self, exc, delivered, step, now>>
    /\ AgentFrame

\* except Exception as e: state["status"] = ProcessingStatus.FAILED
OrchExceptSetFailed ==
    /\ opc = "except"
    /\ state' = [state EXCEPT !.status = FAILED]
    /\ opc' = "except_time"
    /\ UNCHANGED <<apc, self, exc, delivered, step, now>>
    /\ AgentFrame

\* (mutant) the except clause does not record the time
OrchExceptSetCompletedAt_Skipped ==
    /\ opc = "except_time"
    /\ opc' = "reraise"
    /\ UNCHANGED <<state, apc, self, exc, delivered, step, now>>
    /\ AgentFrame

\* state["completed_at"] = datetime.utcnow().isoformat()
OrchExceptSetCompletedAt ==
    /\ opc = "except_time"
    /\ state' = [state EXCEPT !.completed_at = IsoTime(now)]
    /\ now' = now + 1
    /\ opc' = "reraise"
    /\ UNCHANGED <<apc, self, exc, delivered, step>>
    /\ AgentFrame

\* raise: the caller receives the exception that was caught
OrchReraise ==
    /\ opc = "reraise"
    /\ delivered' = [t |-> "raised", exc |-> exc]
    /\ opc' = "raised"
    /\ UNCHANGED <<state, apc, self, exc, step, now>>
    /\ AgentFrame

-----------------------------------------------------------------------------
(* The driver run *)

Init ==
    /\ state = None
    /\ opc = "idle"
    /\ apc = "idle"
    /\ self = COORDINATOR
    /\ exc = None
    /\ result = None
    /\ current_status = PENDING
    /\ delivered = None
    /\ calls = <<>>
    /\ step = 1
    /\ now = 1
    /\ before = None
    /\ run = 0
    /\ analysis_cache = EmptyMap
    /\ http = None
    /\ other = None

HandleProcessing ==
    \/ HpMarkCurrentAgent
    \/ HpLogStart
    \/ HpValidate
    \/ HpLogCompleted
    \/ HpAddError
    \/ HpUpdateStatusFailed

Capability ==
    \/ CapabilityReturns
    \/ CapabilityRaises

ParserProcess ==
    \/ ParserUpdateStatus
    \/ ParserLogStart
    \/ ParserLogExecuting
    \/ ParserKickoff
    \/ ParserWriteOutput
    \/ ParserSendMessage
    \/ ParserLogComplete

LegalProcess ==
    \/ LegalUpdateStatus
    \/ LegalLogStart
    \/ LegalLogExecuting
    \/ LegalKickoff
    \/ LegalWriteOutput
    \/ LegalSendMessage
    \/ LegalLogComplete

RiskProcess ==
    \/ RiskUpdateStatus
    \/ RiskLogStart
    \/ RiskBuildTask
    \/ RiskLogExecuting
    \/ RiskKickoff
    \/ RiskWriteOutput
    \/ RiskSendMessage
    \/ RiskLogComplete

CoordinatorSynthesize ==
    \/ CoordinatorProcess
    \/ CoordinatorUpdateStatus
    \/ CoordinatorBuildTask
    \/ CoordinatorLogExecuting
    \/ CoordinatorKickoff
    \/ CoordinatorWriteOutput
    \/ CoordinatorSetCompleted
    \/ CoordinatorSetCompletedAt
    \/ CoordinatorSendMessage
    \/ CoordinatorLogComplete

\* the steps of analyze_contract after the record is created
OrchestratorRun ==
    \/ OrchInvoke
    \/ OrchStageReturned
    \/ OrchStageRaised
    \/ OrchMarkCompleted
    \/ OrchReturn
    \/ OrchExceptSetFailed
    \/ OrchExceptSetCompletedAt
    \/ OrchReraise

Orchestrator ==
    \/ AnalyzeContract
    \/ OrchestratorRun

Next ==
    \/ Orchestrator
    \/ HandleProcessing
    \/ Capability
    \/ ParserProcess
    \/ LegalProcess
    \/ RiskProcess
    \/ CoordinatorSynthesize
    \/ ProcessAddError

Spec == Init /\ [][Next]_vars

-----------------------------------------------------------------------------
(* Progress.  analyze_contract and the agents' methods are straight-line   *)
(* Python run by one event loop: every statement that can execute does.    *)
(* The only point where the run waits for something outside the program    *)
(* is kickoff().                                                           *)

\* the steps the program itself takes
Program ==
    \/ Orchestrator
    \/ HandleProcessing
    \/ ParserProcess
    \/ LegalProcess
    \/ RiskProcess
    \/ CoordinatorSynthesize
    \/ ProcessAddError

\* a driver run in which every kickoff() eventually returns or raises
LiveSpec == Init /\ [][Next]_vars /\ WF_vars(Program) /\ WF_vars(Capability)

\* a driver run in which kickoff() may never come back
WaitSpec == Init /\ [][Next]_vars /\ WF_vars(Program)

-----------------------------------------------------------------------------
(* Stage runs called directly on one record, the way                       *)
(* tests/test_all_agents.py calls handle_processing, but in any order and  *)
(* whether or not the previous call raised: each call is made on the       *)
(* record as the previous call left it.                                    *)

\* how many handle_processing calls a direct caller makes
MaxRuns == 5

\* handle_processing calls made on s so far (each appends its first log line)
RunCount(s) ==
    Cardinality({i \in 1..Len(s.processing_logs) :
                    s.processing_logs[i].message = "Starting processing"})

\* state = create_initial_state(contract_id="FULL-TEST-001", ...)
CreateRecord ==
    /\ opc = "idle"
    /\ \E filename \in Filenames :
         state' = create_initial_state(Str("FULL-TEST-001"), filename, PyInt(145000),
                                       Str("Provide detailed analysis"), Str("high"))
    /\ now' = now + 1
    /\ opc' = "direct"
    /\ UNCHANGED <<apc, self, exc, delivered, step>>
    /\ AgentFrame

\* state = await <agent>.handle_processing(state)
CallStage ==
    /\ opc = "direct"
    /\ apc = "idle"
    /\ RunCount(state) < MaxRuns
    /\ \E a \in AgentType : self' = a
    /\ before' = state
    /\ apc' = "hp_mark"
    /\ UNCHANGED <<state, opc, exc, result, current_status, delivered, calls, step, now>>
    /\ UNCHANGED <<run, analysis_cache, http, other>>

\* handle_processing returned the record to the caller
StageReturned ==
    /\ opc = "direct"
    /\ apc = "returned"
    /\ apc' = "idle"
    /\ UNCHANGED <<state, opc, self, exc, delivered, step, now>>
    /\ AgentFrame

\* handle_processing raised: the caller catches the exception and keeps the record
StageRaised ==
    /\ opc = "direct"
    /\ apc = "raised"
    /\ apc' = "idle"
    /\ exc' = None
    /\ UNCHANGED <<state, opc, self, delivered, step, now>>
    /\ AgentFrame

\* the answers given to a direct caller's stages: the well-formed response
\* and plain prose
SampleResponses(a) ==
    WellFormed(a) \cup
    CASE a = PARSER -> {Prose("parser prose")}
      [] a = LEGAL -> {Prose("legal prose")}
      [] a = RISK -> {Prose("risk prose")}
      [] a = COORDINATOR -> {Prose("report prose")}

\* kickoff() returns one of the sample responses
CapabilityReturnsSample ==
    /\ apc = "wait"
    /\ \E r \in SampleResponses(self) :
         /\ result' = r
         /\ calls' = Answer(calls, r)
    /\ apc' = "write"
    /\ UNCHANGED <<state, self, exc, current_status, now>>
    /\ Frame

DirectCaller ==
    \/ CreateRecord
    \/ CallStage
    \/ StageReturned
    \/ StageRaised

StageNext ==
    \/ DirectCaller
    \/ HandleProcessing
    \/ CapabilityReturnsSample
    \/ CapabilityRaises
    \/ ParserProcess
    \/ LegalProcess
    \/ RiskProcess
    \/ CoordinatorSynthesize
    \/ ProcessAddError

StageSpec == Init /\ [][StageNext]_vars

-----------------------------------------------------------------------------
(* The API (tests/test_api.py): POST /api/analyze runs the driver and      *)
(* caches the record it returns, GET /api/results/{contract_id} looks a    *)
(* record up, GET /api/contracts lists the cache.  Requests are served     *)
(* one after the other.                                                    *)

\* how many analyses the API is asked for
MaxRequests == 2

\* the files uploaded
Uploads == {Str("sample_nda.pdf"), Str("service_agreement.txt"), Str("contract.docx"), Str("SCAN.PDF")}

\* file.filename.endswith(('.pdf', '.txt'))
EndsWithPdfOrTxt(filename) == filename \in {Str("sample_nda.pdf"), Str("service_agreement.txt")}

IsStr(v) == v.t = "str"
IsStrList(v) == v.t = "list" /\ \A i \in 1..Len(v.v) : IsStr(v.v[i])

\* DetailedAnalysisResponse(**d) validates
DetailedAnalysisOk(d) ==
    /\ d.t = "dict"
    /\ {"contract_overview", "key_findings", "legal_assessment", "risk_summary"} \subseteq DOMAIN d.v
    /\ IsStr(d.v["contract_overview"]) /\ IsStrList(d.v["key_findings"])
    /\ IsStr(d.v["legal_assessment"]) /\ IsStr(d.v["risk_summary"])

\* RiskMatrixResponse(**d) validates
RiskMatrixOk(d) ==
    /\ d.t = "dict"
    /\ {"overall_risk", "financial_risk", "legal_risk", "operational_risk"} \subseteq DOMAIN d.v
    /\ \A k \in {"overall_risk", "financial_risk", "legal_risk", "operational_risk"} : IsStr(d.v[k])

\* the response models can be built from record s
ResponseOk(s) ==
    IF ~Truthy(s.final_report) THEN TRUE
    ELSE /\ IsStr(s.final_report.v["executive_summary"])
         /\ DetailedAnalysisOk(s.final_report.v["detailed_analysis"])
         /\ RiskMatrixOk(s.final_report.v["risk_matrix"])
         /\ IsStrList(s.final_report.v["action_items"])
         /\ IsStr(s.final_report.v["approval_recommendation"])

\* ContractAnalysisResponse(...) of record s
AnalysisResponse(s) ==
    [contract_id |-> s.contract_metadata.contract_id,
     filename |-> s.contract_metadata.filename,
     status |-> s.status,
     started_at |-> s.started_at,
     completed_at |-> s.completed_at,
     final_report |-> IF Truthy(s.final_report) THEN s.final_report ELSE None,
     errors |-> IF Len(s.errors) > 0 THEN List(s.errors) ELSE None]

\* a response: the endpoint, the contract_id of the request's path (None
\* when it has none), and the body or the error
HttpOk(kind, about, body) == [kind |-> kind, about |-> about, status_code |-> 200, body |-> body]
HttpError(kind, about, code, detail) ==
    [kind |-> kind, about |-> about, status_code |-> code, detail |-> detail]

\* the response built from record s, or the 500 of a validation error
Respond(kind, about, s) ==
    IF ResponseOk(s) THEN HttpOk(kind, about, AnalysisResponse(s))
    ELSE HttpError(kind, about, 500, "validation error")

\* POST /api/analyze with a file that is neither .pdf nor .txt
ApiAnalyzeRejected ==
    /\ opc = "idle"
    /\ \E filename \in Uploads : ~EndsWithPdfOrTxt(filename)
    /\ http' = HttpError("analyze", None, 400, "Only PDF and TXT files are supported")
    /\ UNCHANGED <<state, opc, apc, self, exc, result, current_status, delivered, calls, step,
                   now, before, run, analysis_cache, other>>

\* POST /api/analyze: state = await orchestrator.analyze_contract(...)
ApiAnalyze ==
    /\ opc = "idle"
    /\ run < MaxRequests
    /\ \E filename \in Uploads :
         /\ EndsWithPdfOrTxt(filename)
         /\ StartRun(filename, None, Str("medium"))
    /\ http' = None

\* analyze_contract returned: analysis_cache[contract_id] = state, then the
\* response is built
ApiCacheResult ==
    /\ opc = "returned"
    /\ analysis_cache' = (state.contract_metadata.contract_id.v :> state) @@ analysis_cache
    /\ http' = Respond("analyze", None, state)
    /\ opc' = "idle"
    /\ UNCHANGED <<state, apc, self, exc, result, current_status, delivered, calls, step,
                   now, before, run, other>>

\* analyze_contract raised: except Exception -> HTTPException(500)
ApiAnalysisFailed ==
    /\ opc = "raised"
    /\ http' = HttpError("analyze", None, 500, exc.msg)
    /\ opc' = "idle"
    /\ UNCHANGED <<state, apc, self, exc, result, current_status, delivered, calls, step,
                   now, before, run, analysis_cache, other>>

\* the identifiers a client asks for
LookupIds == {ContractIds[i] : i \in 1..Len(ContractIds)}

\* GET /api/results/{contract_id}
GetAnalysisResults ==
    /\ opc = "idle"
    /\ \E contract_id \in LookupIds :
         http' = IF contract_id \notin DOMAIN analysis_cache
                 THEN HttpError("results", Str(contract_id), 404, "Contract analysis not found")
                 ELSE Respond("results", Str(contract_id), analysis_cache[contract_id])
    /\ UNCHANGED <<state, opc, apc, self, exc, result, current_status, delivered, calls, step,
                   now, before, run, analysis_cache, other>>

\* GET /api/contracts
ListContracts ==
    /\ opc = "idle"
    /\ http' = HttpOk("contracts", None,
                  [contracts |-> { [contract_id |-> c,
                                    filename |-> analysis_cache[c].contract_metadata.filename,
                                    status |-> analysis_cache[c].status,
                                    started_at |-> analysis_cache[c].started_at,
                                    completed_at |-> analysis_cache[c].completed_at] :
                                   c \in DOMAIN analysis_cache },
                   total |-> Cardinality(DOMAIN analysis_cache)])
    /\ UNCHANGED <<state, opc, apc, self, exc, result, current_status, delivered, calls, step,
                   now, before, run, analysis_cache, other>>

\* the answers given to the stages of a run the API started
ApiResponses(a) ==
    SampleResponses(a) \cup
    IF a = COORDINATOR
    THEN {WholeJson("report short matrix", With(ReportFull, "risk_matrix", Dict("overall_risk" :> Str("High"))))}
    ELSE {}

\* kickoff() returns one of these answers
CapabilityReturnsToApi ==
    /\ apc = "wait"
    /\ \E r \in ApiResponses(self) :
         /\ result' = r
         /\ calls' = Answer(calls, r)
    /\ apc' = "write"
    /\ UNCHANGED <<state, self, exc, current_status, now>>
    /\ Frame

Api ==
    \/ ApiAnalyzeRejected
    \/ ApiAnalyze
    \/ ApiCacheResult
    \/ ApiAnalysisFailed
    \/ GetAnalysisResults
    \/ ListContracts

ApiNext ==
    \/ Api
    \/ OrchestratorRun
    \/ HandleProcessing
    \/ CapabilityReturnsToApi
    \/ CapabilityRaises
    \/ ParserProcess
    \/ LegalProcess
    \/ RiskProcess
    \/ CoordinatorSynthesize
    \/ ProcessAddError

ApiSpec == Init /\ [][ApiNext]_vars

-----------------------------------------------------------------------------
(* Two driver runs on one orchestrator.  The orchestrator and its four     *)
(* agents are shared; all a run works on is its coroutine's locals and     *)
(* the record create_initial_state built for it.  The variables state ..   *)
(* before belong to the run that is executing, other holds the same        *)
(* values of the run that is not.  The event loop can pass from one run    *)
(* to the other while a run's call into the capability is in flight, and   *)
(* once a run has ended.  The clock and the count of runs are shared.      *)

\* what belongs to the executing run
Context ==
    [state |-> state, opc |-> opc, apc |-> apc, self |-> self, exc |-> exc, result |-> result,
     current_status |-> current_status, delivered |-> delivered, calls |-> calls,
     step |-> step, before |-> before]

\* a run that analyze_contract has not been called for yet
FreshContext ==
    [state |-> None, opc |-> "idle", apc |-> "idle", self |-> COORDINATOR, exc |-> None,
     result |-> None, current_status |-> PENDING, delivered |-> None, calls |-> <<>>,
     step |-> 1, before |-> None]

\* the run that is not executing
Suspended == IF other = None THEN FreshContext ELSE other

RunEnded(c) == c.opc \in {"returned", "raised"}

\* the executing run becomes c
Resume(c) ==
    /\ state' = c.state
    /\ opc' = c.opc
    /\ apc' = c.apc
    /\ self' = c.self
    /\ exc' = c.exc
    /\ result' = c.result
    /\ current_status' = c.current_status
    /\ delivered' = c.delivered
    /\ calls' = c.calls
    /\ step' = c.step
    /\ before' = c.before

\* (mutant) the two records hold the same processing_logs list: what one
\* run appended is in the list the other run goes on with
Switch_SharedLogs ==
    /\ apc = "wait" \/ RunEnded(Context)
    /\ ~RunEnded(Suspended)
    /\ IF Suspended.state = None
          THEN Resume(Suspended)
          ELSE Resume([Suspended EXCEPT !.state.processing_logs = state.processing_logs])
    /\ other' = Context
    /\ UNCHANGED <<now, run, analysis_cache, http>>

\* the event loop passes to the other run
Switch ==
    /\ apc = "wait" \/ RunEnded(Context)
    /\ ~RunEnded(Suspended)
    /\ Resume(Suspended)
    /\ other' = Context
    /\ UNCHANGED <<now, run, analysis_cache, http>>

\* the answers given to the stages of the two runs: the well-formed
\* response, and plain prose for the risk stage
ConcResponses(a) ==
    WellFormed(a) \cup (IF a = RISK THEN {Prose("risk prose")} ELSE {})

\* kickoff() returns one of these answers to the executing run
CapabilityReturnsToRun ==
    /\ apc = "wait"
    /\ \E r \in ConcResponses(self) :
         /\ result' = r
         /\ calls' = Answer(calls, r)
    /\ apc' = "write"
    /\ UNCHANGED <<state, self, exc, current_status, now>>
    /\ Frame

ConcNext ==
    \/ Switch
    \/ Orchestrator
    \/ HandleProcessing
    \/ CapabilityReturnsToRun
    \/ CapabilityRaises
    \/ ParserProcess
    \/ LegalProcess
    \/ RiskProcess
    \/ CoordinatorSynthesize
    \/ ProcessAddError

ConcSpec == Init /\ [][ConcNext]_vars

-----------------------------------------------------------------------------
(* Vocabulary of the properties *)

\* analyze_contract has created the record
Started == opc # "idle"

\* analyze_contract has handed its result to the caller
Exited == opc \in {"returned", "raised"}

Terminal(st) == st \in {COMPLETED, FAILED}

\* the output slot each stage writes
Slot(s, a) ==
    CASE a = PARSER -> s.parser_output
      [] a = LEGAL -> s.legal_analysis
      [] a = RISK -> s.risk_assessment
      [] a = COORDINATOR -> s.final_report

\* from_agent of each message, in list order
Senders(s) == [i \in 1..Len(s.messages) |-> s.messages[i].from_agent]

\* the capability was invoked for stage a
Called(a) == \E i \in 1..Len(calls) : calls[i].agent = a

\* handle_processing of stage a was entered (its first log line is there)
RunInvoked(a) ==
    \/ (apc = "hp_mark" /\ self = a)
    \/ (apc = "hp_log_start" /\ self = a)
    \/ \E i \in 1..Len(state.processing_logs) :
         /\ state.processing_logs[i].agent = a
         /\ state.processing_logs[i].message = "Starting processing"

\* every answer the capability has given is one of the well-formed responses
AllWellFormed ==
    \A i \in 1..Len(calls) : calls[i].response \in WellFormed(calls[i].agent)

\* the filename given to analyze_contract names a document
HasDocument == state.contract_metadata.filename # None

\* the stage whose run is failing or has failed (an exception left its process
\* or its validate_input, or handle_processing has raised)
Failing == apc \in {"except", "hp_except", "hp_fail", "raised"} \/ opc \in {"except", "except_time", "reraise", "raised"}

-----------------------------------------------------------------------------
(* C1: in a driver run for a document in which every answer of the         *)
(* capability is well-formed, analyze_contract returns the record with     *)
(* status completed, completed_at set, the four output slots populated,    *)
(* no error record, and exactly four messages, sent by parser, legal,      *)
(* risk, coordinator in that order.                                        *)
C1_WellFormedRunCompletes ==
    (Exited /\ HasDocument /\ AllWellFormed) =>
        /\ opc = "returned"
        /\ delivered.t = "state"
        /\ delivered.v = state
        /\ state.status = COMPLETED
        /\ state.completed_at # None
        /\ \A a \in AgentType : Slot(state, a) # None
        /\ state.errors = <<>>
        /\ Senders(state) = StageOrder

C1_Witness ==
    /\ opc = "returned"
    /\ Len(calls) = 4
    /\ AllWellFormed
    /\ state.status = COMPLETED

-----------------------------------------------------------------------------
LaterStages(a) == {b \in AgentType : StageIndex(b) > StageIndex(a)}

C2_Stopped ==
    (Started /\ (Failing \/ state.status = FAILED)) =>
        \A b \in LaterStages(self) : ~RunInvoked(b) /\ ~Called(b)

(* C2: once a stage's run is failing or the record is failed, no step of   *)
(* the driver run enters another handle_processing and no step sends a     *)
(* request to the capability; and no stage after the failing one in the    *)
(* driver's order has been run or has had its capability called.           *)
C2_NoLaterStageAfterFailure ==
    [][ (Started /\ (Failing \/ state.status = FAILED)) =>
            /\ apc' # "hp_mark"
            /\ calls' = calls
            /\ self' = self
            /\ C2_Stopped' ]_vars

\* the legal stage has failed: risk and coordinator are still to come
C2_Witness ==
    /\ opc = "raised"
    /\ self = LEGAL
    /\ state.status = FAILED
    /\ Called(PARSER)

-----------------------------------------------------------------------------
LastError(s) == s.errors[Len(s.errors)]

(* C4: in every state of a driver run, status failed implies that errors   *)
(* is not empty and that its last record was appended by                   *)
(* handle_processing of the stage whose run failed.                        *)
C4_FailedHasErrorRecord ==
    (Started /\ state.status = FAILED) =>
        /\ Len(state.errors) >= 1
        /\ LastError(state).agent = self
        /\ LastError(state).agent = state.current_agent
        /\ LastError(state).message[1] = "Processing failed"

\* a failure in validate_input: the only record is the one of handle_processing
C4_Witness ==
    /\ Started
    /\ state.status = FAILED
    /\ Len(state.errors) = 1
    /\ LastError(state).agent = PARSER

-----------------------------------------------------------------------------
(* C5: in every state, status completed implies that parser_output,        *)
(* legal_analysis, risk_assessment and final_report are all set.           *)
C5_CompletedHasAllOutputs ==
    (Started /\ state.status = COMPLETED) =>
        \A a \in AgentType : Slot(state, a) # None

\* the state right after the coordinator set the status
C5_Witness ==
    /\ Started
    /\ state.status = COMPLETED
    /\ apc = "set_completed_at"

-----------------------------------------------------------------------------
LegalCapabilityRaised ==
    /\ Len(calls) = 2
    /\ calls[2].agent = LEGAL
    /\ calls[2].response \in CapabilityErrors

(* C3: in a driver run where the parser stage succeeds and the legal       *)
(* stage's capability raises, the record ends failed with parser_output    *)
(* set, the three other slots None, and exactly one error record.          *)
C3_LegalFailureOneErrorRecord ==
    (Exited /\ LegalCapabilityRaised) =>
        /\ state.status = FAILED
        /\ state.parser_output # None
        /\ state.legal_analysis = None
        /\ state.risk_assessment = None
        /\ state.final_report = None
        /\ Len(state.errors) = 1

-----------------------------------------------------------------------------
(* C6: when a driver run fails, analyze_contract raises a                  *)
(* PipelineFailedError that carries the error records of the run.          *)
C6_RaisesPipelineFailedError ==
    (opc = "raised") =>
        /\ delivered.t = "raised"
        /\ delivered.exc.type = "PipelineFailedError"
        /\ "errors" \in DOMAIN delivered.exc
        /\ delivered.exc.errors = state.errors

-----------------------------------------------------------------------------
\* the value stage a stores for the capability's answer
WrittenBy(a, s, answer) ==
    CASE a = PARSER -> BuildParserOutput(s, ParserParseCrewResult(answer))
      [] a = LEGAL -> BuildLegalAnalysis(LegalParseCrewResult(answer))
      [] a = RISK -> BuildRiskAssessment(RiskParseCrewResult(answer))
      [] a = COORDINATOR -> BuildFinalReport(CoordinatorParseResult(answer))

C7_Retained ==
    (Started /\ (Failing \/ state.status = FAILED)) =>
        LET N == StageIndex(self) IN
        /\ Len(calls) >= N - 1
        /\ \A k \in 1..(N - 1) :
             /\ calls[k].agent = StageOrder[k]
             /\ Slot(state, StageOrder[k]) = WrittenBy(StageOrder[k], state, calls[k].response)
        /\ Senders(state) = SubSeq(StageOrder, 1, N - 1)

(* C7: when a driver run fails at stage N, the slots of stages 1..N-1 hold *)
(* the values those stages built from the capability's answers, the        *)
(* messages are those of stages 1..N-1 in order, and no step of the        *)
(* failure handling changes these slots or the messages.                   *)
C7_FailureKeepsEarlierResults ==
    [][ (Started /\ (Failing \/ state.status = FAILED)) =>
            /\ state'.messages = state.messages
            /\ \A k \in 1..(StageIndex(self) - 1) :
                 Slot(state', StageOrder[k]) = Slot(state, StageOrder[k])
            /\ C7_Retained' ]_vars

\* the run failed in the risk stage, after parser and legal
C7_Witness ==
    /\ opc = "raised"
    /\ self = RISK
    /\ state.status = FAILED
    /\ Len(state.messages) = 2

-----------------------------------------------------------------------------
NextStatus(st) ==
    CASE st = PENDING -> PARSING
      [] st = PARSING -> ANALYZING
      [] st = ANALYZING -> RISK_ASSESSMENT
      [] st = RISK_ASSESSMENT -> SYNTHESIZING
      [] st = SYNTHESIZING -> COMPLETED
      [] OTHER -> "none"

(* C8: the record is created with status pending, and every change of      *)
(* status to a value other than failed moves to the next status in the     *)
(* order pending, parsing, analyzing, risk_assessment, synthesizing,       *)
(* completed.                                                              *)
C8_StatusAdvancesInOrder ==
    [][ IF opc = "idle"
        THEN state'.status = PENDING
        ELSE (state'.status # state.status /\ state'.status # FAILED) =>
                 state'.status = NextStatus(state.status) ]_vars

\* a run that went through every status
C8_Witness ==
    /\ opc = "returned"
    /\ state.status = COMPLETED
    /\ state.current_agent = COORDINATOR

-----------------------------------------------------------------------------
EntersFailed == Started /\ state.status # FAILED /\ state'.status = FAILED

(* C9 as stated: failed is entered only from parsing, analyzing,           *)
(* risk_assessment or synthesizing, and from the failing stage's own       *)
(* in-progress status.                                                     *)
C9_FailedOnlyFromInProgress ==
    [][ EntersFailed =>
            /\ state.status \in {PARSING, ANALYZING, RISK_ASSESSMENT, SYNTHESIZING}
            /\ state.status = InProgressStatus(self) ]_vars

ValidationRejected == exc = Exc("ValueError", "Invalid input state")

(* C9 amended: in a driver run failed is entered from pending when the     *)
(* parser's validate_input rejects the record (no status was set yet), and *)
(* otherwise from the failing stage's own in-progress status; it is never  *)
(* entered from completed.                                                 *)
C9_FailedFromPendingOrOwnStatus ==
    [][ EntersFailed =>
            /\ state.status # COMPLETED
            /\ IF ValidationRejected
                  THEN state.status = PENDING /\ self = PARSER
                  ELSE state.status = InProgressStatus(self) ]_vars

\* failed was entered from pending
C9_Witness ==
    /\ Started
    /\ ~HasDocument
    /\ state.status = FAILED
    /\ calls = <<>>

-----------------------------------------------------------------------------
(* C10: once status is completed or failed, no field of the record         *)
(* changes for the rest of the driver run.                                 *)
C10_TerminalRecordFrozen ==
    [][ (Started /\ Terminal(state.status)) => state' = state ]_vars

-----------------------------------------------------------------------------
(* Vocabulary of the properties of direct stage runs *)

\* a handle_processing call made by a direct caller has ended
CallEnded == opc = "direct" /\ apc \in {"returned", "raised"}

(* C11: when a direct call of any stage's handle_processing was made on a  *)
(* record whose status was completed or failed, then at the end of the     *)
(* call (returned or raised) the status is that same status and the four   *)
(* output slots hold the values they held before the call.                 *)
C11_TerminalRecordRunIsNoOp ==
    (CallEnded /\ Terminal(before.status)) =>
        /\ state.status = before.status
        /\ \A a \in AgentType : Slot(state, a) = Slot(before, a)

-----------------------------------------------------------------------------
(* C12: under direct stage runs in any order, no step changes an output    *)
(* slot that holds a value other than None.                                *)
C12_SlotNeverOverwritten ==
    [][ Started =>
            \A a \in AgentType :
                Slot(state, a) # None => Slot(state', a) = Slot(state, a) ]_vars

-----------------------------------------------------------------------------
(* C13: from a freshly created record and under direct stage runs in any   *)
(* order, in every state legal_analysis set implies parser_output set,     *)
(* risk_assessment set implies legal_analysis set, and final_report set    *)
(* implies the three other slots set.                                      *)
C13_SlotsFollowDependencyOrder ==
    Started =>
        /\ state.legal_analysis # None => state.parser_output # None
        /\ state.risk_assessment # None => state.legal_analysis # None
        /\ state.final_report # None =>
               /\ state.parser_output # None
               /\ state.legal_analysis # None
               /\ state.risk_assessment # None

\* the legal stage was called first and rejected; the four stages then ran in order
C13_Witness ==
    /\ opc = "direct"
    /\ state.final_report # None
    /\ Len(state.errors) >= 1
    /\ state.errors[1].agent = LEGAL

-----------------------------------------------------------------------------
\* s is the beginning of t
IsPrefix(s, t) == Len(s) <= Len(t) /\ SubSeq(t, 1, Len(s)) = s

(* C14: in every step of a driver run (steps of the stages and of the      *)
(* driver, in runs that succeed and in runs that fail) the messages, the   *)
(* errors and the processing_logs before the step are each the beginning   *)
(* of the same sequence after the step: entries are only appended, so the  *)
(* summed length does not decrease.                                        *)
C14_AppendOnly ==
    [][ Started =>
            /\ IsPrefix(state.messages, state'.messages)
            /\ IsPrefix(state.errors, state'.errors)
            /\ IsPrefix(state.processing_logs, state'.processing_logs)
            /\ Len(state'.messages) + Len(state'.errors) + Len(state'.processing_logs)
                 >= Len(state.messages) + Len(state.errors) + Len(state.processing_logs) ]_vars

\* a failed run in which the three sequences were appended to
C14_Witness ==
    /\ opc = "raised"
    /\ Len(state.messages) >= 2
    /\ Len(state.errors) >= 2
    /\ Len(state.processing_logs) >= 10

-----------------------------------------------------------------------------
\* the input the stage contract requires of stage a is missing from s
RequiredInputMissing(a, s) ==
    CASE a = PARSER -> s.contract_metadata.filename = None
      [] a = LEGAL -> s.parser_output = None
      [] a = RISK -> s.legal_analysis = None
      [] a = COORDINATOR -> \E b \in {PARSER, LEGAL, RISK} : Slot(s, b) = None

\* the exception handle_processing raises when validate_input returns false
InvalidInputError == Exc("ValueError", "Invalid input state")

-----------------------------------------------------------------------------
\* r is a response text (not an exception, not a request still unanswered)
IsText(r) == "raw" \in DOMAIN r

\* no parsing strategy finds a structure in the text
Unparseable(text) ==
    /\ text.whole.o # "ok"
    /\ text.fenced.o # "ok"
    /\ text.braced.o # "ok"

\* parser and legal were answered in the expected format and the risk stage
\* was answered with text that has no parseable structure
RiskAnsweredProse ==
    /\ Started
    /\ HasDocument
    /\ Len(calls) >= 3
    /\ calls[1].response \in WellFormed(PARSER)
    /\ calls[2].response \in WellFormed(LEGAL)
    /\ calls[3].agent = RISK
    /\ IsText(calls[3].response)
    /\ Unparseable(calls[3].response)

\* the fallback assessment as the specification documents it
IsDocumentedRiskFallback(ra) ==
    /\ ra.t = "dict"
    /\ ra.v["overall_risk_score"] = Num(500)
    /\ ra.v["risk_categories"].t = "dict"
    /\ DOMAIN ra.v["risk_categories"].v = {"financial", "legal", "operational", "compliance"}
    /\ \A c \in DOMAIN ra.v["risk_categories"].v :
          ra.v["risk_categories"].v[c].v["score"] = Num(500)
    /\ ra.v["critical_risks"] = List(<<>>)
    /\ ra.v["compliance_issues"] = List(<<>>)
    /\ ra.v["recommendations"] = List(<<Str("Manual review recommended due to parsing issues")>>)

\* the risk stage is past the assignment of its slot
RiskSlotWritten ==
    \/ self = COORDINATOR
    \/ self = RISK /\ apc \in {"send", "log_complete", "hp_log_done", "returned", "idle"}

(* C16: in a driver run for a document in which parser and legal are       *)
(* answered in the expected format and the risk stage's capability returns *)
(* text with no parseable structure: the risk stage raises nothing and     *)
(* appends no error record, the risk_assessment it stores is the           *)
(* documented fallback (overall score 5.0, the four category scores 5.0,   *)
(* no critical risks, no compliance issues, the one manual-review          *)
(* recommendation), the run does not end before the coordinator's          *)
(* capability was called, and when the coordinator is answered in the      *)
(* expected format the run returns with status completed and no errors.    *)
C16_RiskProseFallsBackAndCompletes ==
    RiskAnsweredProse =>
        /\ self = RISK => (apc \notin {"except", "hp_except", "hp_fail", "raised"}
                             /\ state.errors = <<>>)
        /\ RiskSlotWritten => IsDocumentedRiskFallback(state.risk_assessment)
        /\ Exited => (RunInvoked(COORDINATOR) /\ Called(COORDINATOR))
        /\ (Exited /\ calls[Len(calls)].response \in WellFormed(COORDINATOR)) =>
               /\ opc = "returned"
               /\ state.status = COMPLETED
               /\ state.errors = <<>>

\* the run returned completed after the risk stage fell back
C16_Witness ==
    /\ RiskAnsweredProse
    /\ opc = "returned"
    /\ state.status = COMPLETED
    /\ state.final_report # None

-----------------------------------------------------------------------------
\* the last request to the capability was made by the active stage and was
\* answered with a text (the capability returned, it did not raise)
ActiveStageAnswered ==
    /\ Started
    /\ Len(calls) >= 1
    /\ calls[Len(calls)].agent = self
    /\ IsText(calls[Len(calls)].response)
    /\ apc # "idle"

(* C17: in a driver run, once the capability has returned a response to    *)
(* the active stage, whatever the response, the stage does not enter an    *)
(* except clause, appends no error record, does not set status failed,     *)
(* and ends its run by returning with its output slot set.                 *)
C17_ResponseNeverHaltsStage ==
    ActiveStageAnswered =>
        /\ apc \notin {"except", "hp_except", "hp_fail", "raised"}
        /\ state.status # FAILED
        /\ \A i \in 1..Len(state.errors) : state.errors[i].agent # self
        /\ apc = "returned" => Slot(state, self) # None

-----------------------------------------------------------------------------
\* a direct call of the coordinator is under way or has ended, made on a
\* record in which one of the three earlier outputs was absent
CoordinatorCalledWithoutOutputs ==
    /\ opc = "direct"
    /\ self = COORDINATOR
    /\ apc # "idle"
    /\ \E a \in {PARSER, LEGAL, RISK} : ~Truthy(Slot(before, a))

\* the message of each log line, in list order
LogMessages(s) == [i \in 1..Len(s.processing_logs) |-> s.processing_logs[i].message]

(* C18: in every state of a direct call of the coordinator made on a       *)
(* record in which parser_output, legal_analysis or risk_assessment is     *)
(* absent: no except clause is entered and nothing is raised, no request   *)
(* is sent to the capability, status, the four slots, messages, errors and *)
(* completed_at are as before the call, status is not completed, and when  *)
(* the call has returned the log holds three more lines, the middle one    *)
(* recording the status the record had.                                    *)
C18_CoordinatorWithoutOutputsIsNoOp ==
    CoordinatorCalledWithoutOutputs =>
        /\ apc \in {"hp_mark", "hp_log_start", "hp_validate", "process", "hp_log_done", "returned"}
        /\ calls = <<>> \/ calls[Len(calls)].response # None
        /\ state.status = before.status
        /\ state.status # COMPLETED
        /\ \A a \in AgentType : Slot(state, a) = Slot(before, a)
        /\ state.messages = before.messages
        /\ state.errors = before.errors
        /\ state.completed_at = before.completed_at
        /\ apc = "returned" =>
               LogMessages(state) = LogMessages(before) \o
                   <<"Starting processing", StatusLine(before.status), "Completed processing">>

\* the coordinator returned from a call on a record with two of the three outputs
C18_Witness ==
    /\ CoordinatorCalledWithoutOutputs
    /\ apc = "returned"
    /\ before.parser_output # None
    /\ before.legal_analysis # None
    /\ before.risk_assessment = None

-----------------------------------------------------------------------------
\* the coercion of each stage, and the value it falls back to
Coerce(a, text) ==
    CASE a = PARSER -> ParserParseCrewResult(text)
      [] a = LEGAL -> LegalParseCrewResult(text)
      [] a = RISK -> RiskParseCrewResult(text)
      [] a = COORDINATOR -> CoordinatorParseResult(text)

StageFallback(a, text) ==
    CASE a = PARSER -> ParserFallback(text)
      [] a = LEGAL -> LegalFallback
      [] a = RISK -> RiskFallback
      [] a = COORDINATOR -> ReportFallback(text)

\* the algorithm as documented: the strategies are tried in order, one that
\* is absent or does not parse gives way to the next, the first that parses
\* wins, and the fallback is returned only when none parses
FirstSuccess(text, fallback) ==
    IF text.whole.o = "ok" THEN text.whole.val
    ELSE IF text.fenced.o = "ok" THEN text.fenced.val
    ELSE IF text.braced.o = "ok" THEN text.braced.val
    ELSE fallback

(* C19: for every stage and every response the capability returns in a     *)
(* driver run, the value the stage's coercion returns is the structure of  *)
(* the first strategy that parses, in the order whole text, fenced json    *)
(* block, first brace-delimited substring, and is the stage's fallback     *)
(* only when none of the three parses.                                     *)
C19_FirstParsingStrategyWins ==
    (apc = "write") =>
        Coerce(self, result) = FirstSuccess(result, StageFallback(self, result))

-----------------------------------------------------------------------------
(* C20: in a driver run completed_at is None in every state whose status   *)
(* is neither completed nor failed, and a completed_at that has been       *)
(* written is not written again.                                           *)
C20_CompletedAtWrittenOnce ==
    [][ /\ ~Terminal(state'.status) => state'.completed_at = None
        /\ (Started /\ state.completed_at # None) =>
               state'.completed_at = state.completed_at ]_vars

-----------------------------------------------------------------------------
(* C23: in a driver run, when a stage's handle_processing has raised, the  *)
(* output slot of that stage is None.                                      *)
C23_FailedStageLeavesSlotNone ==
    (Started /\ apc = "raised") => Slot(state, self) = None

-----------------------------------------------------------------------------
\* the process method of the active stage is about to be entered
ExecuteInvoked == opc = "direct" /\ apc = "process"

\* the coordinator is inside synthesize_report
Synthesizing ==
    /\ opc = "direct"
    /\ self = COORDINATOR
    /\ apc \in {"update_status", "build_task", "log_exec", "kickoff", "wait", "write",
                 "set_completed", "set_completed_at", "send", "log_complete"}

(* C24 as stated: under direct stage runs in any order, process of the     *)
(* legal stage is never entered while parser_output is None, process of    *)
(* the risk stage never while legal_analysis is None, and process of the   *)
(* coordinator never while risk_assessment is None.                        *)
C24_ExecuteOnlyAfterInput ==
    ExecuteInvoked =>
        /\ self = LEGAL => state.parser_output # None
        /\ self = RISK => state.legal_analysis # None
        /\ self = COORDINATOR => state.risk_assessment # None

(* C24 amended: process of the legal stage is never entered while          *)
(* parser_output is None and process of the risk stage never while         *)
(* legal_analysis is None; process of the coordinator may be entered       *)
(* whatever the slots hold, but synthesize_report, which calls the         *)
(* capability and writes final_report, is entered only when                *)
(* parser_output, legal_analysis and risk_assessment are all set.          *)
C24_ExecuteOrSynthesisOnlyAfterInput ==
    /\ ExecuteInvoked =>
          /\ self = LEGAL => state.parser_output # None
          /\ self = RISK => state.legal_analysis # None
    /\ Synthesizing =>
          /\ state.parser_output # None
          /\ state.legal_analysis # None
          /\ state.risk_assessment # None

\* process of the risk stage is entered after a parser and a legal run
C24_Witness ==
    /\ ExecuteInvoked
    /\ self = RISK
    /\ state.legal_analysis # None
    /\ state.risk_assessment = None

-----------------------------------------------------------------------------
\* the fields of ParserOutput, LegalAnalysis, RiskAssessment and FinalReport
TypeFields(a) ==
    CASE a = PARSER -> {"raw_text", "structured_sections", "metadata", "extraction_confidence"}
      [] a = LEGAL -> {"key_terms", "obligations", "parties_involved", "contract_type",
                       "jurisdiction", "effective_date", "termination_date", "clauses_identified"}
      [] a = RISK -> {"overall_risk_score", "risk_categories", "critical_risks",
                      "recommendations", "compliance_issues"}
      [] a = COORDINATOR -> {"executive_summary", "detailed_analysis", "risk_matrix",
                             "action_items", "approval_recommendation"}

\* the default of each field a stage reads from the coerced mapping
FieldDefaults(a) ==
    CASE a = PARSER -> "structured_sections" :> Dict(EmptyMap) @@ "metadata" :> Dict(EmptyMap) @@
                       "extraction_confidence" :> Num(85)
      [] a = LEGAL -> "key_terms" :> List(<<>>) @@ "obligations" :> List(<<>>) @@
                      "parties_involved" :> List(<<>>) @@ "contract_type" :> Str("Unknown") @@
                      "jurisdiction" :> None @@ "effective_date" :> None @@
                      "termination_date" :> None @@ "clauses_identified" :> List(<<>>)
      [] a = RISK -> "overall_risk_score" :> Num(500) @@ "risk_categories" :> Dict(EmptyMap) @@
                     "critical_risks" :> List(<<>>) @@ "recommendations" :> List(<<>>) @@
                     "compliance_issues" :> List(<<>>)
      [] a = COORDINATOR -> "executive_summary" :> Str("") @@ "detailed_analysis" :> Dict(EmptyMap) @@
                            "risk_matrix" :> Dict(EmptyMap) @@ "action_items" :> List(<<>>) @@
                            "approval_recommendation" :> Str("Requires Review")

\* the well-formed mapping of each stage
FullMapping(a) ==
    CASE a = PARSER -> ParserFull [] a = LEGAL -> LegalFull
      [] a = RISK -> RiskFull [] a = COORDINATOR -> ReportFull

\* the mapping the active stage coerced from the capability's answer
Coerced == Coerce(self, calls[Len(calls)].response)

\* the coerced mapping lacks expected fields, and the fields it has are well formed
LacksFieldsOnly ==
    /\ HasGet(Coerced)
    /\ DOMAIN FieldDefaults(self) \ DOMAIN Coerced.v # {}
    /\ \A k \in DOMAIN Coerced.v :
          k \in DOMAIN FullMapping(self).v /\ Coerced.v[k] = FullMapping(self).v[k]

(* C25: in a driver run every stored stage output is a mapping with        *)
(* exactly the fields of its type; when the mapping coerced from the       *)
(* answer lacks an expected field, the stored output holds that field's    *)
(* default, and when it lacks fields and is otherwise well formed the      *)
(* stage does not fail.                                                    *)
C25_MissingFieldsAreDefaulted ==
    /\ \A a \in AgentType :
          (Started /\ Slot(state, a) # None) =>
              /\ Slot(state, a).t = "dict"
              /\ DOMAIN Slot(state, a).v = TypeFields(a)
    /\ (ActiveStageAnswered /\ HasGet(Coerced) /\ Slot(state, self) # None) =>
          \A k \in DOMAIN FieldDefaults(self) \ DOMAIN Coerced.v :
              Slot(state, self).v[k] = FieldDefaults(self)[k]
    /\ (ActiveStageAnswered /\ LacksFieldsOnly) =>
          apc \notin {"except", "hp_except", "hp_fail", "raised"}

\* the risk stage returned after an answer without overall_risk_score
C25_Witness ==
    /\ ActiveStageAnswered
    /\ self = RISK
    /\ calls[Len(calls)].response.raw = "risk no score"
    /\ LacksFieldsOnly
    /\ apc = "returned"
    /\ state.risk_assessment.v["overall_risk_score"] = Num(500)
    /\ state.risk_assessment.v["critical_risks"] = RiskFull.v["critical_risks"]

-----------------------------------------------------------------------------
\* a number on the 0-10 scale (numbers are held in hundredths)
InBand(v) == v.t = "num" /\ 0 <= v.v /\ v.v <= 1000

\* the numeric scores a stored RiskAssessment holds
CategoryScores(ra) ==
    LET cats == ra.v["risk_categories"] IN
    IF cats.t # "dict" THEN {}
    ELSE { cats.v[c].v["score"] :
             c \in { x \in DOMAIN cats.v : cats.v[x].t = "dict" /\ "score" \in DOMAIN cats.v[x].v } }

(* C26: in a driver run, every overall_risk_score and every category       *)
(* score stored in risk_assessment is a number within [0, 10], whatever    *)
(* the capability's response carried.                                      *)
C26_StoredScoresWithinBand ==
    (Started /\ state.risk_assessment # None) =>
        /\ InBand(state.risk_assessment.v["overall_risk_score"])
        /\ \A sc \in CategoryScores(state.risk_assessment) : InBand(sc)

-----------------------------------------------------------------------------
(* C27: in every state of a driver run the senders of the entries of       *)
(* messages, read in list order, are the beginning of the stage order      *)
(* parser, legal, risk, coordinator.                                       *)
C27_SendersFollowStageOrder ==
    Started => IsPrefix(Senders(state), StageOrder)

\* the run returned with one message of each stage
C27_Witness ==
    /\ opc = "returned"
    /\ Senders(state) = StageOrder

-----------------------------------------------------------------------------
\* how many times handle_processing of stage a was entered in the run
RunsOf(a) ==
    Cardinality({ i \in 1..Len(state.processing_logs) :
                    /\ state.processing_logs[i].agent = a
                    /\ state.processing_logs[i].message = "Starting processing" })

\* how many times the capability was invoked for stage a
CallsOf(a) == Cardinality({ i \in 1..Len(calls) : calls[i].agent = a })

(* C30: in every state of a driver run, runs that fail included, each      *)
(* stage's run has been invoked at most once and the external capability   *)
(* has been invoked at most once for each stage.                           *)
C30_NoStageOrCallRepeated ==
    Started => \A a \in AgentType : RunsOf(a) <= 1 /\ CallsOf(a) <= 1

\* the run ended in failure after the capability raised for the legal stage
C30_Witness ==
    /\ opc = "raised"
    /\ RunsOf(PARSER) = 1 /\ RunsOf(LEGAL) = 1 /\ RunsOf(RISK) = 0
    /\ CallsOf(LEGAL) = 1
    /\ calls[Len(calls)].agent = LEGAL
    /\ calls[Len(calls)].response \in CapabilityErrors

-----------------------------------------------------------------------------
(* C28: when every invocation of the external capability eventually        *)
(* returns or raises, every driver run eventually ends (analyze_contract   *)
(* returns or raises), and it ends with status completed or failed.        *)
C28_RunEndsTerminal ==
    <>(Exited /\ Terminal(state.status))

\* the run ended after the capability raised for the risk stage
C28_Witness ==
    /\ opc = "raised"
    /\ state.status = FAILED
    /\ Len(calls) = 3
    /\ calls[3].response \in CapabilityErrors

-----------------------------------------------------------------------------
\* a stage is waiting for kickoff() to come back
Waiting == Started /\ apc = "wait"

(* C29: in a driver run in which the external capability may never         *)
(* answer, a stage that is waiting for the capability eventually ends in   *)
(* failure: an error record is appended and the status becomes failed.     *)
C29_WaitingStageFailsInTheEnd ==
    Waiting ~> (Started /\ state.status = FAILED /\ Len(state.errors) >= 1)

-----------------------------------------------------------------------------
\* the runs the driver started that have ended and whose request was answered
EndedRuns == IF opc = "idle" THEN 1..run ELSE 1..(run - 1)

\* the API's last response came from endpoint kind
Answered(kind) == "kind" \in DOMAIN http /\ http.kind = kind

(* C22: for every run started through the driver that has ended, with      *)
(* status completed or failed, its record is kept under its contract_id;   *)
(* a lookup of that contract_id answers with that run's record and the     *)
(* listing names it with its status; a lookup of a contract_id that no     *)
(* run was given answers not found.                                        *)
C22_EveryEndedRunIsFound ==
    /\ \A r \in EndedRuns :
          /\ ContractIds[r] \in DOMAIN analysis_cache
          /\ analysis_cache[ContractIds[r]].contract_metadata.contract_id = ContractId(r)
          /\ Terminal(analysis_cache[ContractIds[r]].status)
    /\ Answered("results") =>
          \A i \in 1..Len(ContractIds) :
              http.about = ContractId(i) =>
                  IF i \in EndedRuns
                  THEN /\ http.status_code = 200
                       /\ http.body.contract_id = ContractId(i)
                       /\ Terminal(http.body.status)
                  ELSE http.status_code = 404
    /\ Answered("contracts") =>
          \A r \in EndedRuns :
              \E c \in http.body.contracts :
                  c.contract_id = ContractIds[r] /\ Terminal(c.status)

-----------------------------------------------------------------------------
\* a list of messages, error records or log entries without the clock
\* readings and the uuid4 values of its entries
WithoutClock(entries) ==
    [i \in 1..Len(entries) |->
        [k \in DOMAIN entries[i] |->
            IF k \in {"timestamp", "message_id"} THEN None ELSE entries[i][k]]]

\* record s without what its run read from the clock and from uuid4
Timeless(s) ==
    [s EXCEPT !.contract_metadata.contract_id = None,
              !.contract_metadata.upload_timestamp = None,
              !.started_at = None,
              !.completed_at = IF @ = None THEN None ELSE Bool(TRUE),
              !.messages = WithoutClock(@),
              !.errors = WithoutClock(@),
              !.processing_logs = WithoutClock(@)]

\* a step that is not a switch leaves everything of the other run as it
\* was; a switch hands both runs over as they were
OtherRunUntouched ==
    \/ other' = other
    \/ other' = Context /\ Context' = Suspended

\* both runs have ended, and they were given the same document and the
\* same answers
BothEndedOnSameInputs ==
    /\ other # None
    /\ RunEnded(Context) /\ RunEnded(other)
    /\ state.contract_metadata.filename = other.state.contract_metadata.filename
    /\ calls = other.calls

\* the two runs end alike: the same outcome and, the clock readings and
\* the contract_id apart, the same record
EndAlike ==
    /\ opc = other.opc
    /\ Timeless(state) = Timeless(other.state)
    /\ exc = other.exc

-----------------------------------------------------------------------------
\* a stage's run is under way (handle_processing was entered and has not
\* handed the record back)
StageRunning == apc # "idle"

\* the fields create_initial_state sets for good
Identity(s) ==
    <<s.contract_metadata, s.started_at, s.user_instructions, s.priority_level>>

(* C31: in every step taken once the record exists, by a stage or by the   *)
(* driver, in runs that succeed and in runs that fail, an output slot      *)
(* changes only during the run of the stage that owns it, and              *)
(* contract_metadata, started_at, user_instructions and priority_level     *)
(* do not change.                                                          *)
C31_OnlyOwnSlotAndIdentityKept ==
    [][Started =>
         /\ Identity(state') = Identity(state)
         /\ \A a \in AgentType :
               Slot(state', a) # Slot(state, a) => (StageRunning /\ self = a)]_vars

\* the legal stage's run failed after the parser's succeeded
C31_Witness ==
    /\ Started
    /\ self = LEGAL
    /\ apc = "raised"
    /\ state.parser_output # None
    /\ state.status = FAILED

-----------------------------------------------------------------------------
\* the entries a step appended to a list of the record
Appended(old, new) == { new[i] : i \in (Len(old) + 1)..Len(new) }

\* the agents named by the entries the step appended to processing_logs,
\* errors and messages
AppendingAgents ==
    { e.agent : e \in Appended(state.processing_logs, state'.processing_logs) } \cup
    { e.agent : e \in Appended(state.errors, state'.errors) } \cup
    { m.from_agent : m \in Appended(state.messages, state'.messages) }

(* C32: in every step of a stage's run in a driver run, the first change   *)
(* to the record sets current_agent to the stage, every later change is    *)
(* made while current_agent is the stage, and every entry appended to      *)
(* processing_logs, errors or messages names the stage current_agent       *)
(* identifies when it is appended.                                         *)
C32_ChangesByCurrentAgent ==
    [][(Started /\ StageRunning /\ state' # state) =>
         /\ state'.current_agent = self
         /\ apc # "hp_mark" => state.current_agent = self
         /\ apc = "hp_mark" =>
               state' = [state EXCEPT !.current_agent = self]
         /\ \A a \in AppendingAgents : a = state'.current_agent
         /\ \A a \in AgentType :
               Slot(state', a) # Slot(state, a) => a = state.current_agent]_vars

\* the risk stage has appended its message
C32_Witness ==
    /\ Started
    /\ self = RISK
    /\ state.current_agent = RISK
    /\ apc = "log_complete"
    /\ Len(state.messages) = 3
    /\ state.messages[3].from_agent = RISK

-----------------------------------------------------------------------------
\* the active stage has coerced the capability's answer
AnswerCoerced == ActiveStageAnswered /\ apc # "write"

(* C33: in a driver run, whenever the coercion of the answer given to a    *)
(* stage (any of the four) ends in the stage's fallback value, whichever   *)
(* way the parse failed, the stage does not fail and the coercion has      *)
(* written a log entry about it.                                           *)
C33_FallbackIsLoggedAndHarmless ==
    (AnswerCoerced /\ CascadeFallsBack(calls[Len(calls)].response)) =>
        /\ apc \notin {"except", "hp_except", "hp_fail", "raised"}
        /\ Coerced = StageFallback(self, calls[Len(calls)].response)
        /\ ParseLogsError(self, calls[Len(calls)].response)

-----------------------------------------------------------------------------
(* C34: when analyze_contract has returned, the record it handed to its    *)
(* caller has status completed; when it has raised, the record's status    *)
(* is failed; in both cases completed_at is set.                           *)
C34_ExitStatusAndCompletedAt ==
    /\ opc = "returned" =>
          /\ delivered.t = "state"
          /\ delivered.v = state
          /\ state.status = COMPLETED
          /\ state.completed_at # None
    /\ opc = "raised" =>
          /\ delivered.t = "raised"
          /\ state.status = FAILED
          /\ state.completed_at # None

\* analyze_contract raised after the parser rejected its input: no stage
\* had set completed_at
C34_Witness ==
    /\ opc = "raised"
    /\ state.parser_output = None
    /\ Len(calls) = 0
    /\ state.completed_at # None

-----------------------------------------------------------------------------
\* a direct caller's stage found its input invalid: validate_input has
\* returned false in the call under way or just ended
Rejected ==
    /\ opc = "direct"
    /\ apc \notin {"idle", "hp_mark", "hp_log_start", "hp_validate"}
    /\ ~validate_input(self, before)

\* record s with current_agent, processing_logs, errors and status of b
Besides(s, b) ==
    [s EXCEPT !.current_agent = b.current_agent, !.processing_logs = b.processing_logs,
              !.errors = b.errors, !.status = b.status]

(* C35: under any sequence of stage runs on one record, from the moment a  *)
(* stage's validate_input has returned false to the end of its run, the    *)
(* run is in its failure path, where the capability is not invoked; the    *)
(* record differs from the record before the call only in current_agent    *)
(* (the stage), processing_logs (the starting line added), errors (at the  *)
(* end one record more, naming the stage) and status (as before, or        *)
(* failed, and failed at the end).                                         *)
C35_RejectedRunChangesLittle ==
    Rejected =>
        /\ apc \in {"hp_except", "hp_fail", "raised"}
        /\ Besides(state, before) = before
        /\ state.current_agent = self
        /\ LogMessages(state) = LogMessages(before) \o <<"Starting processing">>
        /\ state.processing_logs[Len(state.processing_logs)].agent = self
        /\ IsPrefix(before.errors, state.errors)
        /\ Len(state.errors) = Len(before.errors) + (IF apc = "hp_except" THEN 0 ELSE 1)
        /\ apc # "hp_except" => state.errors[Len(state.errors)].agent = self
        /\ state.status \in {before.status, FAILED}
        /\ apc = "raised" => state.status = FAILED

\* the legal stage was run on a fresh record and has raised
C35_Witness ==
    /\ Rejected
    /\ apc = "raised"
    /\ self = LEGAL
    /\ before.status = PENDING
    /\ Len(before.processing_logs) = 0
    /\ state.status = FAILED
    /\ Len(state.errors) = 1

-----------------------------------------------------------------------------
\* whom the message of stage a is addressed to (None: broadcast), and its type
Recipient(a) ==
    CASE a = PARSER -> Agent(LEGAL)
      [] a = LEGAL -> Agent(RISK)
      [] a = RISK -> Agent(COORDINATOR)
      [] a = COORDINATOR -> None

MessageKind(a) == IF a = COORDINATOR THEN COMPLETION ELSE ANALYSIS_RESULT

\* the call appended exactly one message, the one of its stage
OneMessageAppended ==
    /\ IsPrefix(before.messages, state.messages)
    /\ Len(state.messages) = Len(before.messages) + 1
    /\ state.messages[Len(state.messages)].from_agent = self
    /\ state.messages[Len(state.messages)].to_agent = Recipient(self)
    /\ state.messages[Len(state.messages)].message_type = MessageKind(self)

\* a message is appended only once the slot is written, and a run that
\* raised with its slot as it was before the call appended none
MessageOnlyAfterSlot ==
    /\ (opc = "direct" /\ StageRunning /\ state.messages # before.messages) =>
          Slot(state, self) # None
    /\ (CallEnded /\ apc = "raised" /\ Slot(state, self) = Slot(before, self)) =>
          state.messages = before.messages

(* C36 as stated: under any sequence of stage runs on one record, every    *)
(* stage run that returns has written its slot and appended exactly one    *)
(* message (parser to legal, legal to risk, risk to coordinator, all       *)
(* analysis results; coordinator a completion to nobody), and a run that   *)
(* fails before writing its slot appends none.                             *)
C36_EveryReturnedRunSendsOne ==
    /\ (CallEnded /\ apc = "returned") =>
          (OneMessageAppended /\ Slot(state, self) # None)
    /\ MessageOnlyAfterSlot

(* C36 amended: the same, except that a coordinator run on a record in     *)
(* which parser_output, legal_analysis or risk_assessment is missing       *)
(* returns without writing final_report and without appending a message.   *)
C36_ReturnedRunSendsOneUnlessNoOp ==
    /\ (CallEnded /\ apc = "returned") =>
          IF CoordinatorCalledWithoutOutputs
          THEN state.messages = before.messages /\ state.final_report = before.final_report
          ELSE OneMessageAppended /\ Slot(state, self) # None
    /\ MessageOnlyAfterSlot

\* the risk stage returned on a record that already held two messages
C36_Witness ==
    /\ CallEnded
    /\ apc = "returned"
    /\ self = RISK
    /\ Len(before.messages) = 2
    /\ OneMessageAppended

-----------------------------------------------------------------------------
\* the stages whose output stage a reads
Upstream(a) ==
    CASE a = PARSER -> {}
      [] a = LEGAL -> {PARSER}
      [] a = RISK -> {LEGAL}
      [] a = COORDINATOR -> {PARSER, LEGAL, RISK}

\* kickoff() has been called for the running stage and has not come back
CapabilityInvoked == opc = "direct" /\ apc = "wait"

(* C37: under any sequence of stage runs on one record, while a stage's    *)
(* call of the external capability is under way, current_agent is that     *)
(* stage, status is the stage's in-progress status (parsing, analyzing,    *)
(* risk_assessment, synthesizing), every slot the stage reads is set, and  *)
(* the request in flight is the stage's.                                   *)
C37_CapabilityInvokedInProgress ==
    CapabilityInvoked =>
        /\ state.current_agent = self
        /\ state.status = InProgressStatus(self)
        /\ \A a \in Upstream(self) : Slot(state, a) # None
        /\ self = PARSER => state.contract_metadata.filename # None
        /\ calls[Len(calls)].agent = self
        /\ calls[Len(calls)].response = None

\* the risk stage's call is under way on a record a failed run left behind
C37_Witness ==
    /\ CapabilityInvoked
    /\ self = RISK
    /\ before.status = FAILED
    /\ state.status = RISK_ASSESSMENT

-----------------------------------------------------------------------------
\* the API's last response answers the analysis request of the run that
\* has just ended
AnalysisAnswered ==
    /\ opc = "idle"
    /\ run >= 1
    /\ Answered("analyze")
    /\ http.status_code # 400

\* the response carries the report of record s
AnswersWithReport(s) ==
    /\ http.status_code = 200
    /\ http.body.contract_id = s.contract_metadata.contract_id
    /\ http.body.status = COMPLETED
    /\ http.body.final_report = s.final_report

(* C38: for every record the driver returned with status completed,        *)
(* whatever the coordinator's answer was (well formed, lacking fields, or  *)
(* prose that resolves to the fallback report), the analyze endpoint       *)
(* answers with the report, and so does every later lookup of that run.    *)
C38_CompletedRecordIsAnswered ==
    /\ (AnalysisAnswered /\ state.status = COMPLETED) => AnswersWithReport(state)
    /\ Answered("results") =>
          \A c \in DOMAIN analysis_cache :
              (http.about = Str(c) /\ analysis_cache[c].status = COMPLETED) =>
                  AnswersWithReport(analysis_cache[c])
====
